---- MODULE Spec2Model ----
(***************************************************************************)
(* Verification model of the ezk SIP stack.                                *)
(*                                                                         *)
(* The dialog layer (sip-ua/src/dialog/layer.rs, client_builder.rs) is     *)
(* explored under several budgets, each a specification of its own:        *)
(*   Spec         CSeq ordering: one task calling DialogLayer::receive     *)
(*                for a stream of requests, in a dialog whose one usage    *)
(*                is already registered.                                   *)
(*   WrapSpec     the same with CSeq values at the top of u32.             *)
(*   RaceSpec     two tasks inside DialogLayer::receive at the same time.  *)
(*   UsageSpec    register_usage and UsageGuard::drop around one request.  *)
(*   GuardSpec    UsageGuard (clone, drop) and repeated dialog creation    *)
(*                around one request.                                      *)
(*   SessionSpec  the INVITE session (sip-ua/src/invite/session.rs) with   *)
(*                the locks its operations take.                           *)
(*   RefreshSpec  RefreshNeeded::process_default with a stream of          *)
(*                responses from the refresh transaction.                  *)
(*   TransportSpec  one stream transport (sip-core/src/transport/          *)
(*                streaming/mod.rs): receive task and usage references.    *)
(*   WriteSpec    the writers of one stream connection: the receive task   *)
(*                and the callers of StreamingWrite::send.                 *)
(*   ParseSpec    parse_complete (sip-core/src/transport/parse.rs) on one  *)
(*                datagram.                                                *)
(*   StunSpec     encode and decode of one ICE attribute of STUN           *)
(*                (stun-types/src/attributes/ice.rs).                      *)
(***************************************************************************)
EXTENDS Integers, Sequences, FiniteSets, TLC

(***************************************************************************)
(* Bounds of the model.                                                    *)
(***************************************************************************)
MaxArrivals == 3        \* Spec: requests that reach DialogLayer::receive
NumCSeq == 2            \* Spec: distinct small CSeq values a peer may send
MaxWrapArrivals == 2    \* WrapSpec: requests that reach DialogLayer::receive
MaxRaceArrivals == 2    \* RaceSpec: requests that reach DialogLayer::receive
MaxRegistrations == 3   \* UsageSpec: calls of register_usage
MaxCreates == 2         \* GuardSpec: dialog entries inserted into the table
MaxClones == 1          \* GuardSpec: UsageGuard::clone calls
MaxCalls == 2           \* SessionSpec: calls of Session::drive and Session::terminate
MaxResponses == 2       \* RefreshSpec: responses handed to one process_default
MaxEvents == 1          \* SessionSpec: usage events emitted by the session's usage
MaxItems == 2           \* TransportSpec: items the receive task reads from the stream
MaxUses == 2            \* TransportSpec: uses of the transport by other tasks
MaxTicks == 1           \* TransportSpec: ticks of the keep-alive interval
MaxSends == 2           \* WriteSpec: calls of StreamingWrite::send
MsgLen == 2             \* WriteSpec: bytes of one message handed to send
MaxHeadEnd == 3         \* ParseSpec: length of the head of a datagram
MaxTail == 3            \* ParseSpec: bytes of a datagram after its head
MaxValueLen == 9        \* StunSpec: bytes of an attribute value handed to decode

(***************************************************************************)
(* Option<T>: None is the empty sequence, Some(x) the one-element one.     *)
(***************************************************************************)
None == << >>
Some(x) == << x >>
IsSome(o) == o # << >>
Unwrap(o) == o[1]

(***************************************************************************)
(* u32, kept at its full width as two 16-bit limbs <<high, low>>.          *)
(***************************************************************************)
U32(n) == << 0, n >>
U32_MAX == << 65535, 65535 >>
U32_MAX_MINUS_1 == << 65535, 65534 >>
U32Less(a, b) == a[1] < b[1] \/ (a[1] = b[1] /\ a[2] < b[2])
U32WrappingSucc(a) ==
    IF a[2] < 65535 THEN << a[1], a[2] + 1 >>
    ELSE IF a[1] < 65535 THEN << a[1] + 1, 0 >>
    ELSE << 0, 0 >>
\* a + 1 on u32 overflows exactly at u32::MAX
U32SuccOverflows(a) == a = U32_MAX

\* std::cmp::Ord::cmp on u32
Cmp(a, b) == IF U32Less(a, b) THEN "Less" ELSE IF a = b THEN "Equal" ELSE "Greater"

(***************************************************************************)
(* Inputs.                                                                 *)
(***************************************************************************)
FirstCSeq == 6
SmallCSeqIn == { U32(FirstCSeq + i - 1) : i \in 1..NumCSeq }
CSeqIn == SmallCSeqIn \cup { U32_MAX_MINUS_1, U32_MAX }
PeerCSeqIn == { None, Some(U32(FirstCSeq - 1)), Some(U32_MAX) }
Methods == { "ACK", "INVITE", "BYE" }
Tasks == { "t1", "t2" }
App == "app"
Free == "free"

VARIABLES
    budget,          \* what the explored run may still do (fixed by Init)
    overflow_checks, \* build profile: "panic" or "wrap" on integer overflow,
                     \* "unobserved" until the first overflow shows which
    dialogs,         \* DialogLayer::dialogs for one DialogKey: Option<DialogEntry>
    lock,            \* holder of the DialogLayer::dialogs mutex, or Free
    task,            \* per task: position inside DialogLayer::receive
    app,             \* the application thread: position inside register/drop/create
    guards,          \* live UsageGuard values: guard -> number of copies
    registered,      \* number of register_usage calls so far (= id of the last usage)
    created,         \* number of dialog entries inserted so far
    cloned,          \* number of UsageGuard::clone calls so far
    arrived,         \* history: requests that entered receive, in lock order
    accepted,        \* history: request ids in the order they were put in `requests`
    offers,          \* history: Usage::receive invocations, in order
    responses,       \* history: what handle_unwanted_request sent
    panicked,        \* history: request ids whose receive call panicked
    destroyed        \* history: usages whose destructor ran, with the lock state

dialogVars == << budget, overflow_checks, dialogs, lock, task, app, guards, registered,
                 created, cloned, arrived, accepted, offers, responses, panicked,
                 destroyed >>

(***************************************************************************)
(* The INVITE session (sip-ua/src/invite/session.rs): one Session value,   *)
(* owned by one task (every operation takes &mut Session).                 *)
(***************************************************************************)
VARIABLES
    role,            \* Session::role
    refresher,       \* Session::session_timer.refresher
    session,         \* position of the owning task inside the Session's operations
    held,            \* locks the owning task holds, in the order it took them
    session_state,   \* Inner::state: "confirmed" or "terminated"
    awaited_ack,     \* Inner::awaited_ack: Option of the awaited CSeq
    session_timer,   \* Session::session_timer: has the refresh deadline passed
    usage_events,    \* Session::usage_events: the channel from the usage
    effects,         \* history: what the session did, in order
    outcome,         \* history: what each call returned to the owner
    calls            \* number of drive and terminate calls so far

sessionVars == << role, refresher, session, held, session_state, awaited_ack,
                  session_timer, usage_events, effects, outcome, calls >>

Roles == { "Uac", "Uas" }
Refreshers == { "Uac", "Uas" }
RespCSeqIn == { 1, 2 }
UsageEventIn == [ kind : { "ReInvite", "Bye" }, cseq : { 1 } ]

NoSession == [ pc |-> "none", caller |-> "app", invite |-> None, ack |-> None,
               responses |-> 0 ]
IdleSession == [ NoSession EXCEPT !.pc = "idle" ]

\* no Session has been constructed
SessionAbsent ==
    /\ role = "Uac"
    /\ refresher = "Uac"
    /\ session = NoSession
    /\ held = << >>
    /\ session_state = "confirmed"
    /\ awaited_ack = None
    /\ session_timer = [ expired |-> FALSE ]
    /\ usage_events = [ queue |-> << >>, closed |-> FALSE, emitted |-> 0 ]
    /\ effects = << >>
    /\ outcome = << >>
    /\ calls = 0

\* Session::new
SessionNew ==
    /\ role \in Roles
    /\ refresher \in Refreshers
    /\ session = IdleSession
    /\ held = << >>
    /\ session_state = "confirmed"
    /\ awaited_ack = None
    /\ session_timer = [ expired |-> FALSE ]
    /\ usage_events = [ queue |-> << >>, closed |-> FALSE, emitted |-> 0 ]
    /\ effects = << >>
    /\ outcome = << >>
    /\ calls = 0

(***************************************************************************)
(* One stream transport (sip-core/src/transport/streaming/mod.rs): its     *)
(* receive task, its entry in the transport registry and the usage         *)
(* references (TpHandle) to it.                                            *)
(***************************************************************************)
VARIABLES
    tp,              \* the receive task's ReceiveTaskState and the registry entry
    tp_in,           \* history: items the receive task read from the stream
    tp_out,          \* history: the writes to the connection, in the order
                     \* in which they got the write half
    tp_msgs,         \* history: items passed to Endpoint::receive
    tp_dropped,      \* Option: usage references alive when drop_transport ran
    tp_count,        \* uses by other tasks, keep-alive ticks and sends so far
    tp_task,         \* where the receive task is: at its select!, or about to
                     \* write a keep-alive request or response
    write_half,      \* owner of the Mutex around the connection's write half
    sender,          \* per sending task: its position in StreamingWrite::send
    wire             \* history: the bytes the connection accepted, each with
                     \* the write it belongs to and its offset in that write

writeVars == << tp_task, write_half, sender, wire >>
transportVars == << tp, tp_in, tp_out, tp_msgs, tp_dropped, tp_count, writeVars >>

Items == { "message", "ka_request", "ka_response", "error", "closed" }

\* no stream transport exists
NoTransport ==
    [ state |-> "None", incoming |-> FALSE, notifier |-> "none", rx |-> "none",
      idle_timer |-> "off", registry |-> "none", refs |-> 0 ]

Senders == { "s1", "s2" }
IdleSender == [ pc |-> "idle", w |-> 0 ]

\* the write half as Factory::create and task_accept wrap it: nobody holds it
WriteHalfNew ==
    /\ tp_task = "select"
    /\ write_half = "free"
    /\ sender = [ s \in Senders |-> IdleSender ]
    /\ wire = << >>

TransportAbsent ==
    /\ tp = NoTransport
    /\ tp_in = << >>
    /\ tp_out = << >>
    /\ tp_msgs = << >>
    /\ tp_dropped = None
    /\ tp_count = [ uses |-> 0, ticks |-> 0, sends |-> 0 ]
    /\ WriteHalfNew

(* task_accept: add_managed_unused, then receive_task in
   Unused(sleep(32 s), rx) *)
Accepted ==
    [ NoTransport EXCEPT !.state = "Unused", !.incoming = TRUE, !.rx = "empty",
                         !.idle_timer = "running", !.registry = "unused" ]

(* Factory::create: add_managed_used gives the caller's TpHandle and the
   notifier, then receive_task in InUse(notifier) *)
Connected ==
    [ NoTransport EXCEPT !.state = "InUse", !.notifier = "armed",
                         !.registry = "used", !.refs = 1 ]

TransportNew ==
    /\ tp \in { Accepted, Connected }
    /\ tp_in = << >>
    /\ tp_out = << >>
    /\ tp_msgs = << >>
    /\ tp_dropped = None
    /\ tp_count = [ uses |-> 0, ticks |-> 0, sends |-> 0 ]
    /\ WriteHalfNew

(***************************************************************************)
(* Pure functions (sip-core/src/transport/parse.rs, stun-types/src/        *)
(* attributes/ice.rs): the value a function is applied to and its result.  *)
(***************************************************************************)
VARIABLES
    input,           \* Option: the argument
    output           \* Option: the result once the function was applied

pureVars == << input, output >>

\* no function is applied
PureAbsent ==
    /\ input = None
    /\ output = None

(***************************************************************************)
(* SlotMap<DefaultKey, Arc<dyn Usage>> (slotmap crate): slots are reused   *)
(* from a LIFO free list, a key is (index, version), a slot is occupied    *)
(* while its version is odd, and values() walks the slots by index.        *)
(***************************************************************************)
EmptySlotMap == [ slots |-> << >>, free |-> << >> ]

SlotMapInsertIdx(sm) == IF sm.free # << >> THEN Head(sm.free) ELSE Len(sm.slots) + 1

SlotMapInsertKey(sm) ==
    LET idx == SlotMapInsertIdx(sm) IN
    [ idx |-> idx,
      version |-> IF sm.free # << >> THEN sm.slots[idx].version + 1 ELSE 1 ]

SlotMapInsert(sm, v) ==
    LET key == SlotMapInsertKey(sm) IN
    IF sm.free # << >>
    THEN [ slots |-> [ sm.slots EXCEPT ![key.idx] = [ version |-> key.version, value |-> v ] ],
           free  |-> Tail(sm.free) ]
    ELSE [ slots |-> Append(sm.slots, [ version |-> 1, value |-> v ]),
           free  |-> sm.free ]

SlotMapContains(sm, key) ==
    key.idx \in 1..Len(sm.slots) /\ sm.slots[key.idx].version = key.version

\* the removed value, as an Option
SlotMapRemoved(sm, key) ==
    IF SlotMapContains(sm, key) THEN Some(sm.slots[key.idx].value) ELSE None

SlotMapRemove(sm, key) ==
    IF SlotMapContains(sm, key)
    THEN [ slots |-> [ sm.slots EXCEPT ![key.idx] =
                          [ version |-> key.version + 1, value |-> 0 ] ],
           free  |-> << key.idx >> \o sm.free ]
    ELSE sm

\* values(): the occupied slots in index order
SlotMapValues(sm) ==
    LET F[i \in 0..Len(sm.slots)] ==
            IF i = 0 THEN << >>
            ELSE IF sm.slots[i].version % 2 = 1
                 THEN Append(F[i - 1], sm.slots[i].value)
                 ELSE F[i - 1]
    IN F[Len(sm.slots)]

SeqToSet(s) == { s[i] : i \in 1..Len(s) }


(***************************************************************************)
(* DialogEntry.  The backlog (BTreeMap<u32, IncomingRequest>) is a set of  *)
(* [cseq, id] pairs with at most one pair per cseq; a request is named by  *)
(* its id, the index of its arrival in `arrived`.                          *)
(***************************************************************************)
DialogEntryNew(peer_cseq) ==
    [ backlog        |-> { },
      next_peer_cseq |-> IF IsSome(peer_cseq)
                         THEN Some(U32WrappingSucc(Unwrap(peer_cseq)))
                         ELSE None,
      usages         |-> EmptySlotMap ]

\* peer_cseq + 1 overflows in DialogEntry::new
DialogEntryNewOverflows(peer_cseq) ==
    IsSome(peer_cseq) /\ U32SuccOverflows(Unwrap(peer_cseq))

\* BTreeMap::insert: a pair with the same key is replaced
BacklogInsert(backlog, cseq, id) ==
    { e \in backlog : e.cseq # cseq } \cup { [ cseq |-> cseq, id |-> id ] }

\* first value the range `request_cseq..` yields in the drain loop
DrainStart(request_cseq) == request_cseq

(* The loop `for next_cseq in request_cseq.. { backlog.remove(&next_cseq) }`.
   c is the value the range yields next; yielding u32::MAX computes MAX + 1,
   which panics when overflow checks are on and wraps otherwise.  The result
   is the pairs removed, in order, the backlog left, and whether it panicked. *)
RECURSIVE Drain(_, _, _)
Drain(c, backlog, checks) ==
    IF U32SuccOverflows(c) /\ checks
    THEN [ panic |-> TRUE, taken |-> << >>, backlog |-> backlog ]
    ELSE LET hit == { e \in backlog : e.cseq = c } IN
         IF hit = { }
         THEN [ panic |-> FALSE, taken |-> << >>, backlog |-> backlog ]
         ELSE LET e    == CHOOSE x \in hit : TRUE
                  rest == Drain(U32WrappingSucc(c), backlog \ hit, checks)
              IN [ panic   |-> rest.panic,
                   taken   |-> << e >> \o rest.taken,
                   backlog |-> rest.backlog ]

\* ReceiveLess with the bug of treating a late request as the expected one
ReceiveLess_Advances(e1, id) ==
    [ kind |-> "deliver",
      entry |-> [ e1 EXCEPT !.next_peer_cseq = Some(U32WrappingSucc(Unwrap(@))) ],
      usages |-> SlotMapValues(e1.usages), requests |-> << id >> ]

\* Ordering::Less, lines 72-82: the request alone is returned for delivery.
ReceiveLess(e1, id) ==
    [ kind |-> "deliver", entry |-> e1,
      usages |-> SlotMapValues(e1.usages), requests |-> << id >> ]

(* Ordering::Equal, lines 83-108: the request, then what the drain loop finds
   in the backlog; next_peer_cseq becomes the last of them + 1. *)
ReceiveEqual(e1, id, request_cseq, checks) ==
    LET d    == Drain(DrainStart(request_cseq), e1.backlog, checks)
        reqs == << id >> \o [ i \in 1..Len(d.taken) |-> d.taken[i].id ]
        last == IF d.taken = << >> THEN request_cseq
                ELSE d.taken[Len(d.taken)].cseq
    IN
    IF d.panic \/ (U32SuccOverflows(last) /\ checks)
    THEN [ kind |-> "panic", entry |-> [ e1 EXCEPT !.backlog = d.backlog ],
           usages |-> << >>, requests |-> << >> ]
    ELSE [ kind |-> "deliver",
           entry |-> [ e1 EXCEPT !.backlog = d.backlog,
                                 !.next_peer_cseq = Some(U32WrappingSucc(last)) ],
           usages |-> SlotMapValues(e1.usages), requests |-> reqs ]

\* ReceiveGreater with the bug of a missing `return`: the request is delivered
ReceiveGreater_Delivers(e1, id, request_cseq) ==
    [ kind |-> "deliver", entry |-> e1,
      usages |-> SlotMapValues(e1.usages), requests |-> << id >> ]

\* Ordering::Greater, lines 109-116: the request goes to the backlog.
ReceiveGreater(e1, id, request_cseq) ==
    [ kind |-> "return",
      entry |-> [ e1 EXCEPT !.backlog = BacklogInsert(e1.backlog, request_cseq, id) ],
      usages |-> << >>, requests |-> << >> ]

\* Option::get_or_insert, line 69
GetOrInsert(opt, value) == IF IsSome(opt) THEN opt ELSE Some(value)

(* The critical section of DialogLayer::receive for an existing entry,
   lines 63-117.  kind is "deliver" (usages and requests are returned from the
   block), "return" (the Greater branch) or "panic" (arithmetic overflow). *)
ReceiveLocked(entry, id, request_cseq, checks) ==
    LET e1  == [ entry EXCEPT !.next_peer_cseq = GetOrInsert(@, request_cseq) ]
        ord == Cmp(request_cseq, Unwrap(e1.next_peer_cseq))
    IN
    IF ord = "Less" THEN ReceiveLess(e1, id)
    ELSE IF ord = "Equal" THEN ReceiveEqual(e1, id, request_cseq, checks)
    ELSE ReceiveGreater(e1, id, request_cseq)

(***************************************************************************)
(* Reference counts of the Arc<dyn Usage> values.                          *)
(***************************************************************************)
IdleTask == [ pc |-> "idle", usages |-> << >>, requests |-> << >>, idx |-> 1 ]
IdleApp == [ pc |-> "idle", key |-> None, usage |-> None ]

InTable(u) == IsSome(dialogs) /\ u \in SeqToSet(SlotMapValues(Unwrap(dialogs).usages))
InSnapshot(u, t) == u \in SeqToSet(task[t].usages)
HeldByApp(u) == app.usage = Some(u)

GuardKeys == [ idx : 1..MaxRegistrations, version : 1..(2 * MaxRegistrations) ]

(* a UsageGuard: its usage_key, and (not a field of the struct) the usage that
   register_usage inserted when it made the guard *)
Guard(key, usage) == [ key |-> key, usage |-> usage ]
GuardValues == [ key : GuardKeys, usage : 1..MaxRegistrations ]

DialogInit ==
    /\ overflow_checks = "unobserved"
    /\ dialogs = None
    /\ lock = Free
    /\ task = [ t \in Tasks |-> IdleTask ]
    /\ app = IdleApp
    /\ guards = { }
    /\ registered = 0
    /\ created = 0
    /\ cloned = 0
    /\ arrived = << >>
    /\ accepted = << >>
    /\ offers = << >>
    /\ responses = << >>
    /\ panicked = { }
    /\ destroyed = { }
    /\ SessionAbsent


(* The build decides what an overflow does.  `checks` is the choice an action
   is evaluated with; once an overflow has happened under it, it is the
   build's for the rest of the run. *)
Observe(checks, overflowed) ==
    LET mode == IF checks THEN "panic" ELSE "wrap" IN
    /\ overflow_checks \in { "unobserved", mode }
    /\ overflow_checks' = IF overflowed THEN mode ELSE overflow_checks

(***************************************************************************)
(* DialogLayer::receive, one call per task.                                *)
(***************************************************************************)
\* where the Equal/Less branches leave the task once the block is evaluated
AfterBlock(kind) ==
    IF kind = "deliver" THEN "locked_deliver"
    ELSE IF kind = "panic" THEN "locked_panic" ELSE "locked_return"

(* Lines 50-117: the request reaches the layer, the dialog-table lock is
   taken and the block is evaluated; the lock is still held afterwards. *)
Receive(t, cseq, method, checks) ==
    /\ t \in budget.tasks
    /\ cseq \in budget.cseqs
    /\ method \in budget.methods
    /\ task[t].pc = "idle"
    /\ lock = Free
    /\ Len(arrived) < budget.arrivals
    /\ LET id == Len(arrived) + 1 IN
       /\ arrived' = Append(arrived, [ cseq |-> cseq, method |-> method ])
       /\ lock' = t
       /\ IF IsSome(dialogs)
          THEN LET r == ReceiveLocked(Unwrap(dialogs), id, cseq, checks) IN
               /\ Observe(checks, r # ReceiveLocked(Unwrap(dialogs), id, cseq, ~checks))
               /\ dialogs' = Some(r.entry)
               /\ task' = [ task EXCEPT ![t] = [ pc |-> AfterBlock(r.kind),
                                                 usages |-> r.usages,
                                                 requests |-> r.requests,
                                                 idx |-> 1 ] ]
               /\ accepted' = accepted \o r.requests
               /\ panicked' = IF r.kind = "panic" THEN panicked \cup { id } ELSE panicked
          ELSE /\ task' = [ task EXCEPT ![t].pc = "locked_return" ]
               /\ Observe(checks, FALSE)
               /\ UNCHANGED << dialogs, accepted, panicked >>
    /\ UNCHANGED << pureVars, transportVars, sessionVars, budget, app, guards,
                    registered, created, cloned, offers, responses, destroyed >>

\* where the task continues when the lock guard goes out of scope
AfterUnlock(pc) == IF pc = "locked_deliver" THEN "deliver" ELSE "idle"

\* Line 122 (or the return / unwinding): the lock guard is dropped.
ReceiveUnlock(t) ==
    /\ task[t].pc \in { "locked_deliver", "locked_return", "locked_panic" }
    /\ lock = t
    /\ lock' = Free
    /\ task' = [ task EXCEPT ![t].pc = AfterUnlock(task[t].pc) ]
    /\ UNCHANGED << pureVars, transportVars, sessionVars,
                    budget, overflow_checks, dialogs, app, guards, registered, created,
                    cloned, arrived, accepted, offers, responses, panicked, destroyed >>

\* Lines 129-135: the current request is offered to the next usage.
Offer(t) ==
    /\ task[t].pc = "deliver"
    /\ task[t].requests # << >>
    /\ task[t].idx <= Len(task[t].usages)
    /\ task' = [ task EXCEPT ![t].pc = "in_usage" ]
    /\ offers' = Append(offers, [ usage |-> task[t].usages[task[t].idx],
                                  id |-> Head(task[t].requests),
                                  took |-> FALSE ])
    /\ UNCHANGED << pureVars, transportVars, sessionVars, budget, overflow_checks,
                    dialogs, lock, app, guards, registered, created, cloned, arrived,
                    accepted, responses, panicked, destroyed >>

\* index of the usage offered next when the request was not taken
NextUsage(idx) == idx + 1

\* Lines 135-139: Usage::receive returns, having taken the request or not.
UsageReturn(t, took) ==
    /\ task[t].pc = "in_usage"
    /\ task' = [ task EXCEPT ![t].pc = "deliver",
                             ![t].requests = IF took THEN Tail(@) ELSE @,
                             ![t].idx = IF took THEN 1 ELSE NextUsage(@) ]
    /\ offers' = IF took
                 THEN [ offers EXCEPT ![CHOOSE i \in 1..Len(offers) :
                                           /\ offers[i].id = Head(task[t].requests)
                                           /\ offers[i].usage = task[t].usages[task[t].idx]
                                       ].took = TRUE ]
                 ELSE offers
    /\ UNCHANGED << pureVars, transportVars, sessionVars, budget, overflow_checks,
                    dialogs, lock, app, guards, registered, created, cloned, arrived,
                    accepted, responses, panicked, destroyed >>

\* UnwantedResponse with the bug of answering an ACK as well
UnwantedResponse_AnswersAck(method) ==
    IF method = "INVITE"
    THEN Some([ code |-> 404, via |-> "ServerInvTsx::respond_failure" ])
    ELSE Some([ code |-> 404, via |-> "ServerTsx::respond" ])

\* handle_unwanted_request: what is sent for a request of the given method
UnwantedResponse(method) ==
    IF method = "ACK" THEN None
    ELSE IF method = "INVITE"
         THEN Some([ code |-> 404, via |-> "ServerInvTsx::respond_failure" ])
         ELSE Some([ code |-> 404, via |-> "ServerTsx::respond" ])

(* Lines 142-147 and 153-174: no usage took the request.  `sent` is whether
   the transaction managed to send; an error is logged and the loop goes on. *)
HandleUnwanted(t, sent) ==
    /\ task[t].pc = "deliver"
    /\ task[t].requests # << >>
    /\ task[t].idx > Len(task[t].usages)
    /\ LET id == Head(task[t].requests)
           rsp == UnwantedResponse(arrived[id].method)
       IN /\ IsSome(rsp) \/ sent
          /\ responses' = IF IsSome(rsp)
                          THEN Append(responses, [ id |-> id, code |-> Unwrap(rsp).code,
                                                   via |-> Unwrap(rsp).via, sent |-> sent ])
                          ELSE responses
    /\ task' = [ task EXCEPT ![t].requests = Tail(@), ![t].idx = 1 ]
    /\ UNCHANGED << pureVars, transportVars, sessionVars, budget, overflow_checks,
                    dialogs, lock, app, guards, registered, created, cloned, arrived,
                    accepted, offers, panicked, destroyed >>

\* usages whose last reference is the snapshot of task t
LastInSnapshot(t) ==
    { u \in SeqToSet(task[t].usages) :
        /\ ~InTable(u)
        /\ ~HeldByApp(u)
        /\ \A o \in Tasks \ { t } : ~InSnapshot(u, o) }

(* Line 149: receive returns and the snapshot of the usages is dropped; the
   destructor of a usage runs here when the snapshot held its last reference. *)
ReceiveFinish(t) ==
    /\ task[t].pc = "deliver"
    /\ task[t].requests = << >>
    /\ LET last == LastInSnapshot(t) IN
       /\ task' = [ task EXCEPT ![t] = [ IdleTask EXCEPT
                        !.pc = IF last = { } THEN "idle" ELSE "dropping" ] ]
       /\ destroyed' = destroyed \cup { [ usage |-> u, locked |-> lock = t ] : u \in last }
    /\ UNCHANGED << pureVars, transportVars, sessionVars, budget, overflow_checks,
                    dialogs, lock, app, guards, registered, created, cloned, arrived,
                    accepted, offers, responses, panicked >>

\* the usage destructor started in ReceiveFinish returns
ReceiveDropDone(t) ==
    /\ task[t].pc = "dropping"
    /\ task' = [ task EXCEPT ![t].pc = "idle" ]
    /\ UNCHANGED << pureVars, transportVars, sessionVars, budget, overflow_checks,
                    dialogs, lock, app, guards, registered, created, cloned, arrived,
                    accepted, offers, responses, panicked, destroyed >>


(***************************************************************************)
(* The application thread: register_usage, UsageGuard (clone, drop) and    *)
(* the insertion of a new DialogEntry.                                     *)
(***************************************************************************)
\* the live guards are a bag: a set of [key, n] with n > 0 copies of the guard `key`
GuardsCount(g, key) ==
    IF \E e \in g : e.key = key THEN (CHOOSE e \in g : e.key = key).n ELSE 0
GuardsAdd(g, key) ==
    { e \in g : e.key # key } \cup { [ key |-> key, n |-> GuardsCount(g, key) + 1 ] }
GuardsRemove(g, key) ==
    { e \in g : e.key # key } \cup
    (IF GuardsCount(g, key) > 1
     THEN { [ key |-> key, n |-> GuardsCount(g, key) - 1 ] } ELSE { })

(* register_usage, lines 208-211: the lock is taken; without an entry the
   `?` returns None, otherwise the usage is inserted.  The usage gets the
   ordinal of its registration as its identity. *)
RegisterLock ==
    /\ app.pc = "idle"
    /\ lock = Free
    /\ registered < budget.registrations
    /\ registered' = registered + 1
    /\ lock' = App
    /\ IF IsSome(dialogs)
       THEN LET entry == Unwrap(dialogs) IN
            /\ dialogs' = Some([ entry EXCEPT !.usages = SlotMapInsert(@, registered + 1) ])
            /\ app' = [ pc |-> "register_locked",
                        key |-> Some(SlotMapInsertKey(entry.usages)),
                        usage |-> None ]
       ELSE /\ app' = [ pc |-> "register_none", key |-> None,
                        usage |-> Some(registered + 1) ]
            /\ UNCHANGED dialogs
    /\ UNCHANGED << pureVars, transportVars, sessionVars, budget, overflow_checks, task,
                    guards, created, cloned, arrived, accepted, offers, responses,
                    panicked, destroyed >>

\* register_usage, lines 213-219: the lock is released, the guard returned.
RegisterUnlock ==
    /\ app.pc = "register_locked"
    /\ lock' = Free
    /\ guards' = GuardsAdd(guards, Guard(Unwrap(app.key), registered))
    /\ app' = IdleApp
    /\ UNCHANGED << pureVars, transportVars, sessionVars,
                    budget, overflow_checks, dialogs, task, registered, created, cloned,
                    arrived, accepted, offers, responses, panicked, destroyed >>

(* register_usage returning None at line 209: the local lock guard is dropped
   first, the `usage` parameter after it, which runs the usage's destructor. *)
RegisterNoneUnlock ==
    /\ app.pc = "register_none"
    /\ lock' = Free
    /\ app' = [ app EXCEPT !.pc = "dropping" ]
    /\ destroyed' = destroyed \cup { [ usage |-> Unwrap(app.usage), locked |-> FALSE ] }
    /\ UNCHANGED << pureVars, transportVars, sessionVars, budget, overflow_checks,
                    dialogs, task, guards, registered, created, cloned, arrived,
                    accepted, offers, responses, panicked >>

\* #[derive(Clone)] on UsageGuard, line 180
GuardClone(g) ==
    /\ app.pc = "idle"
    /\ GuardsCount(guards, g) > 0
    /\ cloned < budget.clones
    /\ cloned' = cloned + 1
    /\ guards' = GuardsAdd(guards, g)
    /\ UNCHANGED << pureVars, transportVars, sessionVars,
                    budget, overflow_checks, dialogs, lock, task, app, registered, created,
                    arrived, accepted, offers, responses, panicked, destroyed >>

(* UsageGuard::drop, lines 189-192: the lock is taken and, when the entry
   exists, the usage under the guard's key is removed from it. *)
GuardDropLock(g) ==
    /\ app.pc = "idle"
    /\ lock = Free
    /\ GuardsCount(guards, g) > 0
    /\ guards' = GuardsRemove(guards, g)
    /\ lock' = App
    /\ IF IsSome(dialogs)
       THEN LET entry == Unwrap(dialogs) IN
            /\ dialogs' = Some([ entry EXCEPT !.usages = SlotMapRemove(@, g.key) ])
            /\ app' = [ pc |-> "drop_locked", key |-> Some(g.key),
                        usage |-> SlotMapRemoved(entry.usages, g.key) ]
       ELSE /\ app' = [ pc |-> "drop_no_entry", key |-> Some(g.key), usage |-> None ]
            /\ UNCHANGED dialogs
    /\ UNCHANGED << pureVars, transportVars, sessionVars,
                    budget, overflow_checks, task, registered, created, cloned, arrived,
                    accepted, offers, responses, panicked, destroyed >>

\* the removed usage is the last reference to its value
LastInApp ==
    { u \in SeqToSet(app.usage) : ~InTable(u) /\ \A t \in Tasks : ~InSnapshot(u, t) }

\* the lock is released before the removed usage is dropped
DropReleasesFirst == TRUE

(* UsageGuard::drop, lines 195-196: drop(dialogs), then drop(usage), which
   runs the usage's destructor unless a snapshot still refers to it. *)
GuardDropUnlock ==
    /\ app.pc = "drop_locked"
    /\ lock' = IF DropReleasesFirst \/ LastInApp = { } THEN Free ELSE lock
    /\ app' = [ app EXCEPT !.pc = IF LastInApp = { } THEN "idle" ELSE "dropping",
                           !.usage = IF LastInApp = { } THEN None ELSE @,
                           !.key = None ]
    /\ destroyed' = destroyed \cup
                      { [ usage |-> u, locked |-> ~DropReleasesFirst ] : u \in LastInApp }
    /\ UNCHANGED << pureVars, transportVars, sessionVars, budget, overflow_checks,
                    dialogs, task, guards, registered, created, cloned, arrived,
                    accepted, offers, responses, panicked >>

\* UsageGuard::drop without an entry: the lock guard goes out of scope.
GuardDropNoEntry ==
    /\ app.pc = "drop_no_entry"
    /\ lock' = Free
    /\ app' = IdleApp
    /\ UNCHANGED << pureVars, transportVars, sessionVars, budget, overflow_checks,
                    dialogs, task, guards, registered, created, cloned, arrived,
                    accepted, offers, responses, panicked, destroyed >>

\* a usage destructor started on the application thread returns
AppDropDone ==
    /\ app.pc \in { "dropping", "create_dropping" }
    /\ IF app.pc = "dropping"
       THEN app' = IdleApp /\ lock' = (IF lock = App THEN Free ELSE lock)
       ELSE app' = [ app EXCEPT !.pc = "create_locked" ] /\ UNCHANGED lock
    /\ UNCHANGED << pureVars, transportVars, sessionVars, budget, overflow_checks,
                    dialogs, task, guards, registered, created, cloned, arrived,
                    accepted, offers, responses, panicked, destroyed >>

\* usages whose last reference is the entry that an insert replaces
LastInTable ==
    IF IsSome(dialogs)
    THEN { u \in SeqToSet(SlotMapValues(Unwrap(dialogs).usages)) :
             \A t \in Tasks : ~InSnapshot(u, t) }
    ELSE { }

(* Dialog creation: DialogEntry::new(peer_cseq) and
   `dialogs.lock().insert(key, entry);` (client_builder.rs 90-95, where
   peer_cseq is None).  new() runs before the lock is taken and may overflow.
   The entry that insert() replaces is the value of the statement and is
   dropped before the lock guard, a temporary of the same statement. *)
CreateDialog(peer_cseq, checks) ==
    /\ peer_cseq \in budget.peers
    /\ app.pc = "idle"
    /\ lock = Free
    /\ created < budget.creates
    /\ created' = created + 1
    /\ Observe(checks, DialogEntryNewOverflows(peer_cseq))
    /\ IF DialogEntryNewOverflows(peer_cseq) /\ checks
       THEN UNCHANGED << dialogs, lock, app, destroyed >>
       ELSE /\ dialogs' = Some(DialogEntryNew(peer_cseq))
            /\ lock' = App
            /\ app' = [ IdleApp EXCEPT
                          !.pc = IF LastInTable = { } THEN "create_locked"
                                 ELSE "create_dropping" ]
            /\ destroyed' = destroyed \cup
                              { [ usage |-> u, locked |-> TRUE ] : u \in LastInTable }
    /\ UNCHANGED << pureVars, transportVars, sessionVars, budget, task, guards,
                    registered, cloned, arrived, accepted, offers, responses, panicked >>

\* end of the insert statement: the lock guard temporary is dropped
CreateUnlock ==
    /\ app.pc = "create_locked"
    /\ lock' = Free
    /\ app' = IdleApp
    /\ UNCHANGED << pureVars, transportVars, sessionVars, budget, overflow_checks,
                    dialogs, task, guards, registered, created, cloned, arrived,
                    accepted, offers, responses, panicked, destroyed >>

(***************************************************************************)
(* Session: what happens around the owning task.                           *)
(***************************************************************************)
\* the refresh deadline of the session timer passes
TimerExpires ==
    /\ session.pc # "none"
    /\ ~session_timer.expired
    /\ session_timer' = [ session_timer EXCEPT !.expired = TRUE ]
    /\ UNCHANGED << pureVars, transportVars, dialogVars, role, refresher, session, held,
                    session_state, awaited_ack, usage_events, effects, outcome, calls >>

\* the session's usage emits a usage event into the channel
UsageEventArrives(evt) ==
    /\ session.pc # "none"
    /\ ~usage_events.closed
    /\ usage_events.emitted < budget.events
    /\ usage_events' = [ usage_events EXCEPT !.queue = Append(@, evt),
                                             !.emitted = @ + 1 ]
    /\ UNCHANGED << pureVars, transportVars, dialogVars, role, refresher, session, held,
                    session_state, awaited_ack, session_timer, effects, outcome, calls >>

\* the sender of the channel is dropped once the state is terminated
CloseUsageEvents ==
    /\ session.pc # "none"
    /\ session_state = "terminated"
    /\ ~usage_events.closed
    /\ usage_events' = [ usage_events EXCEPT !.closed = TRUE ]
    /\ UNCHANGED << pureVars, transportVars, dialogVars, role, refresher, session, held,
                    session_state, awaited_ack, session_timer, effects, outcome, calls >>

(***************************************************************************)
(* Session::drive, handle_session_timer, handle_usage_event.               *)
(***************************************************************************)
Effect(op) == [ op |-> op, cseq |-> 0 ]
EffectCSeq(op, cseq) == [ op |-> op, cseq |-> cseq ]
Returned(call, result) == [ call |-> call, result |-> result ]

\* LocalRefresher with the two arms of the match swapped
LocalRefresher_Swapped == role # refresher

\* handle_session_timer: is the local side the refresher for its role
LocalRefresher == role = refresher

\* TimerReset that leaves the deadline as it is
TimerReset_Noop == session_timer

\* SessionTimer::reset
TimerReset == [ session_timer EXCEPT !.expired = FALSE ]

\* drive, timer branch of the select, then handle_session_timer
DriveTimer ==
    /\ session.pc = "idle"
    /\ calls < budget.calls
    /\ session_timer.expired
    /\ calls' = calls + 1
    /\ IF LocalRefresher
       THEN /\ session_timer' = TimerReset
            /\ effects' = Append(effects, Effect("timer_reset"))
            /\ outcome' = Append(outcome, Returned("drive", "RefreshNeeded"))
            /\ session' = [ IdleSession EXCEPT !.pc = "refresh_needed" ]
       ELSE /\ session' = [ IdleSession EXCEPT !.pc = "terminate", !.caller = "drive" ]
            /\ UNCHANGED << session_timer, effects, outcome >>
    /\ UNCHANGED << pureVars, transportVars, dialogVars, role, refresher, held,
                    session_state, awaited_ack, usage_events >>

\* drive, channel branch of the select, then handle_usage_event
DriveUsageEvent ==
    /\ session.pc = "idle"
    /\ calls < budget.calls
    /\ usage_events.queue # << >> \/ usage_events.closed
    /\ calls' = calls + 1
    /\ IF usage_events.queue = << >>
       THEN /\ outcome' = Append(outcome, Returned("drive", "Terminated"))
            /\ UNCHANGED << session, session_timer, usage_events, effects >>
       ELSE LET evt == Head(usage_events.queue) IN
            /\ usage_events' = [ usage_events EXCEPT !.queue = Tail(@) ]
            /\ IF evt.kind = "Bye"
               THEN /\ effects' = Append(effects,
                                         EffectCSeq("create_server_tsx", evt.cseq))
                    /\ outcome' = Append(outcome, Returned("drive", "Bye"))
                    /\ session' = [ IdleSession EXCEPT !.pc = "bye_event",
                                                       !.invite = Some(evt.cseq) ]
                    /\ UNCHANGED session_timer
               ELSE /\ session_timer' = TimerReset
                    /\ effects' = Append(Append(effects, Effect("timer_reset")),
                                         EffectCSeq("create_server_inv_tsx", evt.cseq))
                    /\ outcome' = Append(outcome, Returned("drive", "ReInviteReceived"))
                    /\ session' = [ IdleSession EXCEPT !.pc = "reinvite_received",
                                                       !.invite = Some(evt.cseq) ]
    /\ UNCHANGED << pureVars, transportVars, dialogVars, role, refresher, held,
                    session_state, awaited_ack >>

\* the owner drops the event that drive returned without processing it
DropEvent ==
    /\ session.pc \in { "refresh_needed", "reinvite_received", "bye_event" }
    /\ session' = IdleSession
    /\ UNCHANGED << pureVars, transportVars, dialogVars, role, refresher, held,
                    session_state, awaited_ack, session_timer, usage_events, effects,
                    outcome, calls >>

(***************************************************************************)
(* Session::terminate, called by the owner or by handle_session_timer.     *)
(***************************************************************************)
TerminateCall ==
    /\ session.pc = "idle"
    /\ calls < budget.calls
    /\ calls' = calls + 1
    /\ session' = [ IdleSession EXCEPT !.pc = "terminate" ]
    /\ UNCHANGED << pureVars, transportVars, dialogVars, role, refresher, held,
                    session_state, awaited_ack, session_timer, usage_events, effects,
                    outcome >>

\* TerminateLockState that takes the lock but leaves the state as it is
TerminateLockState_KeepsState ==
    /\ session.pc = "terminate"
    /\ held' = Append(held, "state")
    /\ session' = [ session EXCEPT !.pc = "terminate_lock_target" ]
    /\ UNCHANGED << pureVars, transportVars, dialogVars, role, refresher, session_state,
                    awaited_ack, session_timer, usage_events, effects, outcome, calls >>

\* self.inner.state.lock().await; state.set_terminated()
TerminateLockState ==
    /\ session.pc = "terminate"
    /\ held' = Append(held, "state")
    /\ session_state' = "terminated"
    /\ effects' = Append(effects, Effect("set_terminated"))
    /\ session' = [ session EXCEPT !.pc = "terminate_lock_target" ]
    /\ UNCHANGED << pureVars, transportVars, dialogVars, role, refresher, awaited_ack,
                    session_timer, usage_events, outcome, calls >>

\* create_request(BYE); self.dialog.target_tp_info.lock().await
TerminateLockTarget ==
    /\ session.pc = "terminate_lock_target"
    /\ held' = Append(held, "target_tp_info")
    /\ session' = [ session EXCEPT !.pc = "terminate_send" ]
    /\ UNCHANGED << pureVars, transportVars, dialogVars, role, refresher, session_state,
                    awaited_ack, session_timer, usage_events, effects, outcome, calls >>

\* what the caller of terminate makes of its result
TerminateReturns(result) ==
    IF session.caller = "drive"
    THEN Returned("drive", IF result = "Err" THEN "Err" ELSE "Terminated")
    ELSE Returned("terminate", result)

\* TerminateSend that returns once the BYE is sent, without receive_final
TerminateSend_ReturnsEarly(ok) ==
    /\ session.pc = "terminate_send"
    /\ held' = << >>
    /\ outcome' = Append(outcome, TerminateReturns(IF ok THEN "Final" ELSE "Err"))
    /\ session' = IdleSession
    /\ effects' = IF ok THEN Append(effects, Effect("send_bye")) ELSE effects
    /\ UNCHANGED << pureVars, transportVars, dialogVars, role, refresher, session_state,
                    awaited_ack, session_timer, usage_events, calls >>

\* endpoint.send_request(request, &mut target_tp_info).await?
TerminateSend(ok) ==
    /\ session.pc = "terminate_send"
    /\ IF ok
       THEN /\ effects' = Append(effects, Effect("send_bye"))
            /\ session' = [ session EXCEPT !.pc = "terminate_drop_target" ]
            /\ UNCHANGED << held, outcome >>
       ELSE /\ held' = << >>
            /\ outcome' = Append(outcome, TerminateReturns("Err"))
            /\ session' = IdleSession
            /\ UNCHANGED effects
    /\ UNCHANGED << pureVars, transportVars, dialogVars, role, refresher, session_state,
                    awaited_ack, session_timer, usage_events, calls >>

\* drop(target_tp_info)
TerminateDropTarget ==
    /\ session.pc = "terminate_drop_target"
    /\ held' = SelectSeq(held, LAMBDA l : l # "target_tp_info")
    /\ session' = [ session EXCEPT !.pc = "terminate_receive_final" ]
    /\ UNCHANGED << pureVars, transportVars, dialogVars, role, refresher, session_state,
                    awaited_ack, session_timer, usage_events, effects, outcome, calls >>

\* transaction.receive_final().await, then the state guard goes out of scope
TerminateReceiveFinal(result) ==
    /\ session.pc = "terminate_receive_final"
    /\ held' = << >>
    /\ outcome' = Append(outcome, TerminateReturns(result))
    /\ session' = IdleSession
    /\ UNCHANGED << pureVars, transportVars, dialogVars, role, refresher, session_state,
                    awaited_ack, session_timer, usage_events, effects, calls >>

(***************************************************************************)
(* RefreshNeeded::process_default.                                         *)
(***************************************************************************)
\* create_request(INVITE); self.session.dialog.target_tp_info.lock().await
RefreshLockTarget ==
    /\ session.pc = "refresh_needed"
    /\ held' = Append(held, "target_tp_info")
    /\ session' = [ session EXCEPT !.pc = "refresh_send" ]
    /\ UNCHANGED << pureVars, transportVars, dialogVars, role, refresher, session_state,
                    awaited_ack, session_timer, usage_events, effects, outcome, calls >>

\* endpoint.send_invite(invite, &mut target_tp_info).await?
RefreshSendInvite(ok) ==
    /\ session.pc = "refresh_send"
    /\ IF ok
       THEN /\ effects' = Append(effects, Effect("send_invite"))
            /\ session' = [ session EXCEPT !.pc = "refresh_drop_target" ]
            /\ UNCHANGED << held, outcome >>
       ELSE /\ held' = << >>
            /\ outcome' = Append(outcome, Returned("process_default", "Err"))
            /\ session' = IdleSession
            /\ UNCHANGED effects
    /\ UNCHANGED << pureVars, transportVars, dialogVars, role, refresher, session_state,
                    awaited_ack, session_timer, usage_events, calls >>

\* drop(target_tp_info); let mut ack = None
RefreshDropTarget ==
    /\ session.pc = "refresh_drop_target"
    /\ held' = SelectSeq(held, LAMBDA l : l # "target_tp_info")
    /\ session' = [ session EXCEPT !.pc = "refresh_receive", !.ack = None ]
    /\ UNCHANGED << pureVars, transportVars, dialogVars, role, refresher, session_state,
                    awaited_ack, session_timer, usage_events, effects, outcome, calls >>

RefreshResponseIn ==
    [ kind : { "Success" }, cseq : RespCSeqIn, ok : BOOLEAN ]
        \cup [ kind : { "Provisional", "Failure", "None", "Err" }, cseq : { 1 },
               ok : { TRUE } ]

(* one round of `while let Some(response) = transaction.receive().await?`;
   response.ok tells whether create_ack and send_outgoing_request succeed *)
RefreshReceive(response) ==
    /\ session.pc = "refresh_receive"
    /\ response.kind \in { "Provisional", "Success", "Failure" }
          => session.responses < budget.responses
    /\ CASE response.kind = "None" ->
              /\ outcome' = Append(outcome, Returned("process_default", "Ok"))
              /\ session' = IdleSession
              /\ UNCHANGED effects
         [] response.kind = "Err" ->
              /\ outcome' = Append(outcome, Returned("process_default", "Err"))
              /\ session' = IdleSession
              /\ UNCHANGED effects
         [] response.kind = "Success" ->
              LET ack == IF IsSome(session.ack) THEN session.ack
                         ELSE Some(response.cseq) IN
              IF response.ok
              THEN /\ effects' = effects \o << EffectCSeq("recv_2xx", response.cseq),
                                               EffectCSeq("send_ack", Unwrap(ack)) >>
                   /\ session' = [ session EXCEPT !.ack = ack, !.responses = @ + 1 ]
                   /\ UNCHANGED outcome
              ELSE /\ outcome' = Append(outcome, Returned("process_default", "Err"))
                   /\ session' = IdleSession
                   /\ effects' = Append(effects, EffectCSeq("recv_2xx", response.cseq))
         [] OTHER ->
              /\ session' = [ session EXCEPT !.responses = @ + 1 ]
              /\ UNCHANGED << effects, outcome >>
    /\ UNCHANGED << pureVars, transportVars, dialogVars, role, refresher, held,
                    session_state, awaited_ack, session_timer, usage_events, calls >>

(***************************************************************************)
(* ReInviteReceived::respond_success and ByeEvent::process_default.        *)
(***************************************************************************)
\* RespondLockAwaitedAck that takes the lock but installs nothing
RespondLockAwaitedAck_NoInstall ==
    /\ session.pc = "reinvite_received"
    /\ held' = Append(held, "awaited_ack")
    /\ session' = [ session EXCEPT !.pc = "respond_unlock" ]
    /\ UNCHANGED << pureVars, transportVars, dialogVars, role, refresher, session_state,
                    awaited_ack, session_timer, usage_events, effects, outcome, calls >>

\* *self.session.inner.awaited_ack.lock() = Some(AwaitedAck { cseq, ack_sender })
RespondLockAwaitedAck ==
    /\ session.pc = "reinvite_received"
    /\ held' = Append(held, "awaited_ack")
    /\ awaited_ack' = session.invite
    /\ effects' = Append(effects, EffectCSeq("await_ack", Unwrap(session.invite)))
    /\ session' = [ session EXCEPT !.pc = "respond_unlock" ]
    /\ UNCHANGED << pureVars, transportVars, dialogVars, role, refresher, session_state,
                    session_timer, usage_events, outcome, calls >>

\* the guard is a temporary of that statement
RespondUnlockAwaitedAck ==
    /\ session.pc = "respond_unlock"
    /\ held' = SelectSeq(held, LAMBDA l : l # "awaited_ack")
    /\ session' = [ session EXCEPT !.pc = "respond_send" ]
    /\ UNCHANGED << pureVars, transportVars, dialogVars, role, refresher, session_state,
                    awaited_ack, session_timer, usage_events, effects, outcome, calls >>

\* self.transaction.respond_success(response).await?
RespondSend(ok) ==
    /\ session.pc = "respond_send"
    /\ IF ok
       THEN /\ effects' = Append(effects, EffectCSeq("send_2xx", Unwrap(session.invite)))
            /\ session' = [ session EXCEPT !.pc = "respond_receive_ack" ]
            /\ UNCHANGED outcome
       ELSE /\ outcome' = Append(outcome, Returned("respond_success", "Err"))
            /\ session' = IdleSession
            /\ UNCHANGED effects
    /\ UNCHANGED << pureVars, transportVars, dialogVars, role, refresher, held,
                    session_state, awaited_ack, session_timer, usage_events, calls >>

(* The peer's ACK to the 2xx reaches the usage, which takes the AwaitedAck
   with that CSeq out of the shared state and fills its one-shot channel. *)
AckArrives ==
    /\ session.pc = "respond_receive_ack"
    /\ IsSome(awaited_ack)
    /\ awaited_ack = session.invite
    /\ awaited_ack' = None
    /\ effects' = Append(effects, EffectCSeq("ack_delivered", Unwrap(awaited_ack)))
    /\ UNCHANGED << pureVars, transportVars, dialogVars, role, refresher, session, held,
                    session_state, session_timer, usage_events, outcome, calls >>

\* has the one-shot channel of this respond_success been filled
AckDelivered ==
    /\ effects # << >>
    /\ effects[Len(effects)] = EffectCSeq("ack_delivered", Unwrap(session.invite))

\* super::receive_ack(accepted, ack_recv).await
RespondReceiveAck(result) ==
    /\ session.pc = "respond_receive_ack"
    /\ result = "Ack" <=> AckDelivered
    /\ outcome' = Append(outcome, Returned("respond_success", result))
    /\ session' = IdleSession
    /\ UNCHANGED << pureVars, transportVars, dialogVars, role, refresher, held,
                    session_state, awaited_ack, session_timer, usage_events, effects,
                    calls >>

\* ByeEvent::process_default: create_response(200)?, transaction.respond
ByeProcessDefault(ok) ==
    /\ session.pc = "bye_event"
    /\ IF ok
       THEN effects' = Append(effects, EffectCSeq("send_200_bye", Unwrap(session.invite)))
       ELSE UNCHANGED effects
    /\ outcome' = Append(outcome, Returned("bye_process_default",
                                           IF ok THEN "Ok" ELSE "Err"))
    /\ session' = IdleSession
    /\ UNCHANGED << pureVars, transportVars, dialogVars, role, refresher, held,
                    session_state, awaited_ack, session_timer, usage_events, calls >>

(***************************************************************************)
(* The transport registry's lifecycle operations on one entry.             *)
(***************************************************************************)
(* set_used: a usage reference is handed out; an unused entry becomes used
   and a fresh DropNotifier goes to the receive task through the one-shot
   channel *)
SetUsed(t) ==
    IF t.registry = "unused"
    THEN [ t EXCEPT !.registry = "used", !.rx = "armed", !.refs = @ + 1 ]
    ELSE [ t EXCEPT !.refs = @ + 1 ]

(* a usage reference is dropped; the DropNotifier of the entry fires when
   the last one goes, wherever that notifier is at the moment *)
DropRef(t) ==
    IF t.refs = 1 /\ t.registry = "used"
    THEN IF t.rx = "armed" THEN [ t EXCEPT !.refs = 0, !.rx = "fired" ]
         ELSE IF t.notifier = "armed"
              THEN [ t EXCEPT !.refs = 0, !.notifier = "fired" ]
              ELSE [ t EXCEPT !.refs = 0 ]
    ELSE [ t EXCEPT !.refs = @ - 1 ]

\* set_unused: the entry becomes unused and a new one-shot channel is made
SetUnused(t) == [ t EXCEPT !.registry = "unused", !.rx = "empty" ]

\* drop_transport: the entry is removed
DropTransport(t) == [ t EXCEPT !.registry = "dropped" ]

(***************************************************************************)
(* receive_task.                                                           *)
(***************************************************************************)
Running == tp.state \in { "InUse", "Unused" }

\* TaskReturns without the _drop_guard
TaskReturns_KeepsEntry(t) ==
    [ t EXCEPT !.state = "Ended", !.notifier = "none", !.rx = "none", !.idle_timer = "off" ]

(* the task returns: the locals go, last of them _drop_guard, whose drop
   calls drop_transport *)
TaskReturns(t) == [ DropTransport(t) EXCEPT !.state = "Ended", !.notifier = "none",
                                            !.rx = "none", !.idle_timer = "off" ]

\* the 32 s of the idle timer pass
IdleTimerExpires ==
    /\ tp.state = "Unused"
    /\ tp.idle_timer = "running"
    /\ tp' = [ tp EXCEPT !.idle_timer = "expired" ]
    /\ UNCHANGED << pureVars, dialogVars, sessionVars, tp_in, tp_out, tp_msgs, tp_dropped,
                    tp_count, writeVars >>

\* SelectNotifier that goes to Unused without an idle timer
SelectNotifier_NoTimer ==
    /\ tp.state = "InUse"
    /\ tp_task = "select"
    /\ tp.notifier = "fired"
    /\ tp' = [ SetUnused(tp) EXCEPT !.state = "Unused", !.notifier = "none" ]
    /\ UNCHANGED << pureVars, dialogVars, sessionVars, tp_in, tp_out, tp_msgs, tp_dropped,
                    tp_count, writeVars >>

\* InUse, branch `_ = notifier`: set_unused, Unused(sleep(32 s), rx)
SelectNotifier ==
    /\ tp.state = "InUse"
    /\ tp_task = "select"
    /\ tp.notifier = "fired"
    /\ tp' = [ SetUnused(tp) EXCEPT !.state = "Unused", !.notifier = "none",
                                    !.idle_timer = "running" ]
    /\ UNCHANGED << pureVars, dialogVars, sessionVars, tp_in, tp_out, tp_msgs, tp_dropped,
                    tp_count, writeVars >>

\* Unused, branch `notifier = rx` with Ok(notifier): InUse(notifier)
SelectRx ==
    /\ tp.state = "Unused"
    /\ tp_task = "select"
    /\ tp.rx \in { "armed", "fired" }
    /\ tp' = [ tp EXCEPT !.state = "InUse", !.notifier = tp.rx, !.rx = "none",
                         !.idle_timer = "off" ]
    /\ UNCHANGED << pureVars, dialogVars, sessionVars, tp_in, tp_out, tp_msgs, tp_dropped,
                    tp_count, writeVars >>

\* Unused, branch `_ = timeout`: return
SelectTimeout ==
    /\ tp.state = "Unused"
    /\ tp_task = "select"
    /\ tp.idle_timer = "expired"
    /\ tp' = TaskReturns(tp)
    /\ tp_dropped' = Some(tp.refs)
    /\ UNCHANGED << pureVars, dialogVars, sessionVars, tp_in, tp_out, tp_msgs, tp_count,
                    writeVars >>

(***************************************************************************)
(* Writes to the connection.  A write is a record in tp_out, made when the *)
(* writer gets the write half; the bytes the stream accepts go to wire.    *)
(***************************************************************************)
PingLen == 4       \* b"\r\n\r\n"
PongLen == 2       \* b"\r\n"

\* err: an I/O call of the write returned Err (or accepted no byte)
Write(src, len) ==
    [ src |-> src, len |-> len, written |-> 0, flushed |-> FALSE, err |-> FALSE,
      done |-> FALSE ]

\* the bytes from..to of write w
Bytes(w, from, to) == [ i \in 1..(to - from + 1) |-> [ w |-> w, k |-> from + i - 1 ] ]

(* AsyncWriteExt::write: one poll_write, the stream accepts n of the len
   bytes (n = 0: it accepts none or fails); the result is only logged.  The
   MutexGuard is a temporary of the statement. *)
WriteOnce(src, len, n) ==
    /\ write_half = "free"
    /\ tp_out' = Append(tp_out, [ Write(src, len) EXCEPT !.written = n, !.err = (n = 0),
                                                         !.done = TRUE ])
    /\ wire' = wire \o Bytes(Len(tp_out) + 1, 1, n)
    /\ UNCHANGED << write_half, sender >>

AtSelect == Running /\ tp_task = "select"

\* either state, branch keep_alive_request_interval.tick()
KeepAliveTick ==
    /\ AtSelect
    /\ tp_count.ticks < budget.ticks
    /\ tp_count' = [ tp_count EXCEPT !.ticks = @ + 1 ]
    /\ tp_task' = "ping"
    /\ UNCHANGED << pureVars, dialogVars, sessionVars, tp, tp_in, tp_out, tp_msgs,
                    tp_dropped, write_half, sender, wire >>

\* write_half.lock().await.write(b"\r\n\r\n").await; continue
PingWrite(n) ==
    /\ tp_task = "ping"
    /\ WriteOnce("ping", PingLen, n)
    /\ tp_task' = "select"
    /\ UNCHANGED << pureVars, dialogVars, sessionVars, tp, tp_in, tp_msgs, tp_dropped,
                    tp_count >>

(* either state, branch `item = framed.next()`: set_used, then the match on
   the item.  `kept` tells whether Endpoint::receive keeps the TpHandle of the
   message (a transaction does) or drops it. *)
SelectItem(item, kept) ==
    /\ AtSelect
    /\ Len(tp_in) < budget.items
    /\ tp_in' = Append(tp_in, item)
    /\ LET used == SetUsed(tp)
           released == DropRef(used)
       IN CASE item = "message" ->
                 /\ tp' = IF kept THEN used ELSE released
                 /\ tp_msgs' = Append(tp_msgs, Len(tp_in) + 1)
                 /\ UNCHANGED << tp_dropped, tp_task >>
            [] item = "ka_request" ->
                 /\ tp' = used
                 /\ tp_task' = "pong"
                 /\ UNCHANGED << tp_msgs, tp_dropped >>
            [] item = "ka_response" ->
                 /\ tp' = released
                 /\ UNCHANGED << tp_msgs, tp_dropped, tp_task >>
            [] OTHER ->
                 /\ tp' = TaskReturns(released)
                 /\ tp_dropped' = Some(released.refs)
                 /\ UNCHANGED << tp_msgs, tp_task >>
    /\ UNCHANGED << pureVars, dialogVars, sessionVars, tp_out, tp_count, write_half,
                    sender, wire >>

\* PongWrite that writes nothing
PongWrite_Discards(n) ==
    /\ tp_task = "pong"
    /\ tp_task' = "select"
    /\ tp' = DropRef(tp)
    /\ UNCHANGED << pureVars, dialogVars, sessionVars, tp_in, tp_out, tp_msgs,
                    tp_dropped, tp_count, write_half, sender, wire >>

(* Item::KeepAliveRequest: write_half.lock().await.write(b"\r\n").await;
   continue (the TpHandle of set_used goes) *)
PongWrite(n) ==
    /\ tp_task = "pong"
    /\ WriteOnce("pong", PongLen, n)
    /\ tp_task' = "select"
    /\ tp' = DropRef(tp)
    /\ UNCHANGED << pureVars, dialogVars, sessionVars, tp_in, tp_msgs, tp_dropped,
                    tp_count >>

(***************************************************************************)
(* StreamingWrite::send, called by a task that holds a TpHandle.           *)
(***************************************************************************)
Sending == { s \in Senders : sender[s].pc # "idle" }

\* let mut socket = self.write_half.lock().await
SendLock(s) ==
    /\ sender[s].pc = "idle"
    /\ tp.refs > 0
    /\ tp_count.sends < budget.sends
    /\ write_half = "free"
    /\ write_half' = s
    /\ tp_count' = [ tp_count EXCEPT !.sends = @ + 1 ]
    /\ tp_out' = Append(tp_out, Write("send", MsgLen))
    /\ sender' = [ sender EXCEPT ![s] = [ pc |-> "write_all", w |-> Len(tp_out) + 1 ] ]
    /\ UNCHANGED << pureVars, dialogVars, sessionVars, tp, tp_in, tp_msgs, tp_dropped,
                    tp_task, wire >>

\* the function returns: the MutexGuard goes
SendReturns(s) ==
    /\ write_half' = "free"
    /\ sender' = [ sender EXCEPT ![s] = IdleSender ]

(* socket.write_all(bytes).await?: poll_write until every byte is accepted;
   each call accepts n of the bytes left, n = 0 is an error and returns *)
SendWriteAll(s, n) ==
    /\ sender[s].pc = "write_all"
    /\ LET w == sender[s].w
           from == tp_out[w].written
       IN /\ n <= MsgLen - from
          /\ wire' = wire \o Bytes(w, from + 1, from + n)
          /\ IF n = 0
             THEN /\ tp_out' = [ tp_out EXCEPT ![w].err = TRUE, ![w].done = TRUE ]
                  /\ SendReturns(s)
             ELSE /\ tp_out' = [ tp_out EXCEPT ![w].written = from + n ]
                  /\ sender' = [ sender EXCEPT ![s].pc =
                                   IF from + n = MsgLen THEN "flush" ELSE "write_all" ]
                  /\ UNCHANGED write_half
    /\ UNCHANGED << pureVars, dialogVars, sessionVars, tp, tp_in, tp_msgs, tp_dropped,
                    tp_count, tp_task >>

\* socket.flush().await?; Ok(())
SendFlush(s, ok) ==
    /\ sender[s].pc = "flush"
    /\ tp_out' = [ tp_out EXCEPT ![sender[s].w].flushed = ok, ![sender[s].w].err = ~ok,
                                 ![sender[s].w].done = TRUE ]
    /\ SendReturns(s)
    /\ UNCHANGED << pureVars, dialogVars, sessionVars, tp, tp_in, tp_msgs, tp_dropped,
                    tp_count, tp_task, wire >>

(***************************************************************************)
(* The holders of usage references.                                        *)
(***************************************************************************)
\* another task picks the transport for sending: set_used
EndpointUses ==
    /\ Running
    /\ tp_count.uses < budget.uses
    /\ tp_count' = [ tp_count EXCEPT !.uses = @ + 1 ]
    /\ tp' = SetUsed(tp)
    /\ UNCHANGED << pureVars, dialogVars, sessionVars, tp_in, tp_out, tp_msgs, tp_dropped,
                    writeVars >>

\* the TpHandles that tasks at work hold: one for send, one for the pong
HeldInside ==
    (IF Sending = { } THEN 0 ELSE 1) + (IF tp_task = "pong" THEN 1 ELSE 0)

\* a TpHandle that no task is working with is dropped
HandleDropped ==
    /\ tp.refs > HeldInside
    /\ tp' = DropRef(tp)
    /\ UNCHANGED << pureVars, dialogVars, sessionVars, tp_in, tp_out, tp_msgs, tp_dropped,
                    tp_count, writeVars >>

(***************************************************************************)
(* parse_complete_sip (sip-core/src/transport/parse.rs) on a datagram      *)
(* whose head parsed: head_end is the offset after the head, len the       *)
(* length of the buffer, content_length the typed Content-Length header    *)
(* if headers.get_named finds a valid one.  A byte is named by its offset. *)
(***************************************************************************)
(* usize: a small value v, or the value 2^64 - 1 - v near the top of the
   range; both as [ top, v ] *)
Small(v) == [ top |-> FALSE, v |-> v ]
NearMax(v) == [ top |-> TRUE, v |-> v ]

\* h + n exceeds usize::MAX, for a small h
UsizeAddOverflows(h, n) == n.top /\ h > n.v

\* h + n modulo 2^64, for a small h
UsizeWrappingAdd(h, n) ==
    IF n.top
    THEN IF h > n.v THEN Small(h - n.v - 1) ELSE NearMax(n.v - h)
    ELSE Small(h + n.v)

\* a >= b for a small a
UsizeGeq(a, b) == ~b.top /\ a >= b.v

\* Bytes::slice(begin..end): the bytes at the offsets begin .. end - 1
Slice(begin, end) == [ i \in 1..(end - begin) |-> begin + i - 1 ]

Sip(body) == [ kind |-> "Sip", body |-> body ]
FailedToParse == [ kind |-> "FailedToParse", body |-> << >> ]
Panic == [ kind |-> "panic", body |-> << >> ]

DatagramIn ==
    [ head_end : 1..MaxHeadEnd,
      tail : 0..MaxTail,
      content_length : { None } \cup { Some(Small(v)) : v \in 0..(MaxTail + 1) }
                              \cup { Some(NearMax(v)) : v \in 0..MaxHeadEnd },
      overflow_checks : BOOLEAN ]

BufferLen(d) == d.head_end + d.tail

(* the match on headers.get_named::<ContentLength>() and the Ok at the end;
   `head_end + len.0` panics when it overflows in a build with overflow
   checks and wraps in one without, and Bytes::slice panics on begin > end *)
parse_complete_sip(d) ==
    IF IsSome(d.content_length)
    THEN LET len == Unwrap(d.content_length)
             end == UsizeWrappingAdd(d.head_end, len)
         IN IF len = Small(0)
            THEN Sip(<< >>)
            ELSE IF UsizeAddOverflows(d.head_end, len) /\ d.overflow_checks
            THEN Panic
            ELSE IF UsizeGeq(BufferLen(d), end)
            THEN IF d.head_end > end.v THEN Panic ELSE Sip(Slice(d.head_end, end.v))
            ELSE FailedToParse
    ELSE IF d.head_end = BufferLen(d)
         THEN Sip(<< >>)
         ELSE Sip(Slice(d.head_end, BufferLen(d)))

\* a datagram is handed to parse_complete
ParseComplete ==
    /\ IsSome(input)
    /\ output = None
    /\ output' = Some(parse_complete_sip(Unwrap(input)))
    /\ UNCHANGED << dialogVars, sessionVars, transportVars, input >>

(***************************************************************************)
(* The ICE attributes of STUN (stun-types/src/attributes/ice.rs).  A u32   *)
(* is two 16-bit limbs, a u64 four, most significant first; an attribute   *)
(* value on the wire is a sequence of bytes.                               *)
(***************************************************************************)
Attrs == { "Priority", "UseCandidate", "IceControlled", "IceControlling" }

\* the 16-bit limbs of the integer an attribute holds
Limbs(attr) ==
    CASE attr = "Priority" -> 2
      [] attr = "UseCandidate" -> 0
      [] OTHER -> 4

SampleLimbs == { 0, 1, 255, 256, 65535 }
AttrValues(attr) == [ 1..Limbs(attr) -> SampleLimbs ]

\* BufMut::put_u32 / put_u64: the integer in big-endian byte order
put_uint(x) ==
    [ i \in 1..(2 * Len(x)) |->
        IF i % 2 = 1 THEN x[(i + 1) \div 2] \div 256 ELSE x[i \div 2] % 256 ]

\* NE: network byte order
NE == "BigEndian"

\* the limbs of the integer whose bytes, most significant first, are b
FromBytes(b) == [ i \in 1..(Len(b) \div 2) |-> b[2 * i - 1] * 256 + b[2 * i] ]

Reverse(b) == [ i \in 1..Len(b) |-> b[Len(b) + 1 - i] ]

\* read_uint on a host whose byte order is little-endian, with NE native
read_uint_LittleEndian(b) == FromBytes(Reverse(b))

\* ReadBytesExt::read_u32::<NE> / read_u64::<NE>
read_uint(b) == IF NE = "BigEndian" THEN FromBytes(b) ELSE FromBytes(Reverse(b))

Ok(x) == [ ok |-> TRUE, value |-> x ]
InvalidData == [ ok |-> FALSE, value |-> << >> ]

\* Attribute::encode: the bytes put into the builder's buffer
encode(attr, x) == IF attr = "UseCandidate" THEN << >> ELSE put_uint(x)

\* Attribute::encode_len
encode_len(attr) ==
    CASE attr = "Priority" -> 4
      [] attr = "UseCandidate" -> 0
      [] OTHER -> 8

\* Attribute::decode on the value bytes of the attribute
decode(attr, value) ==
    CASE attr = "Priority" ->
           IF Len(value) # 4 THEN InvalidData ELSE Ok(read_uint(value))
      [] attr = "UseCandidate" -> Ok(<< >>)
      [] OTHER ->
           IF Len(value) # 8 THEN InvalidData ELSE Ok(read_uint(value))

SampleBytes == { 0, 255 }
ValueBytes == UNION { [ 1..n -> SampleBytes ] : n \in 0..MaxValueLen }

\* an attribute to encode, or the value bytes of a received attribute
StunIn ==
    UNION { { [ attr |-> a, kind |-> "value", x |-> x ] : x \in AttrValues(a) } :
            a \in Attrs } \cup
    { [ attr |-> a, kind |-> "bytes", x |-> b ] : a \in Attrs, b \in ValueBytes }

\* encode of the attribute
StunEncode ==
    /\ IsSome(input)
    /\ Unwrap(input).kind = "value"
    /\ output = None
    /\ output' = Some([ bytes |-> encode(Unwrap(input).attr, Unwrap(input).x),
                        decoded |-> None ])
    /\ UNCHANGED << dialogVars, sessionVars, transportVars, input >>

\* decode of the bytes that encode wrote, or of the received value bytes
StunDecode ==
    /\ IsSome(input)
    /\ LET in == Unwrap(input)
       IN IF in.kind = "value"
          THEN /\ IsSome(output)
               /\ Unwrap(output).decoded = None
               /\ output' = Some([ Unwrap(output) EXCEPT
                                     !.decoded = Some(decode(in.attr, Unwrap(output).bytes)) ])
          ELSE /\ output = None
               /\ output' = Some([ bytes |-> in.x, decoded |-> Some(decode(in.attr, in.x)) ])
    /\ UNCHANGED << dialogVars, sessionVars, transportVars, input >>

(***************************************************************************)
(* Specifications.                                                         *)
(***************************************************************************)
vars == << dialogVars, sessionVars, transportVars, pureVars >>

ReceiveStep == \E t \in Tasks, cseq \in CSeqIn, method \in Methods, checks \in BOOLEAN :
                  Receive(t, cseq, method, checks)
ReceiveUnlockStep == \E t \in Tasks : ReceiveUnlock(t)
OfferStep == \E t \in Tasks : Offer(t)
UsageReturnStep == \E t \in Tasks, took \in BOOLEAN : UsageReturn(t, took)
HandleUnwantedStep == \E t \in Tasks, sent \in BOOLEAN : HandleUnwanted(t, sent)
ReceiveFinishStep == \E t \in Tasks : ReceiveFinish(t)
ReceiveDropDoneStep == \E t \in Tasks : ReceiveDropDone(t)
GuardCloneStep == \E g \in GuardValues : GuardClone(g)
GuardDropLockStep == \E g \in GuardValues : GuardDropLock(g)
CreateDialogStep == \E peer_cseq \in PeerCSeqIn, checks \in BOOLEAN :
                       CreateDialog(peer_cseq, checks)

\* CSeq ordering: a stream of requests handled by one task, one usage
OrderBudget ==
    [ tasks |-> { "t1" }, arrivals |-> MaxArrivals, cseqs |-> SmallCSeqIn,
      methods |-> Methods,
      peers |-> { None, Some(U32(FirstCSeq - 1)) },
      registrations |-> 1, creates |-> 1, clones |-> 0 ]

(* The dialog exists (DialogEntry::new(peer_cseq) was inserted) and its usage
   was registered: the state CreateDialog and register_usage lead to. *)
Init ==
    /\ budget = OrderBudget
    /\ overflow_checks = "unobserved"
    /\ \E peer_cseq \in OrderBudget.peers :
          dialogs = Some([ DialogEntryNew(peer_cseq) EXCEPT
                             !.usages = SlotMapInsert(@, 1) ])
    /\ lock = Free
    /\ task = [ t \in Tasks |-> IdleTask ]
    /\ app = IdleApp
    /\ guards = GuardsAdd({ }, Guard(SlotMapInsertKey(EmptySlotMap), 1))
    /\ registered = 1
    /\ created = 1
    /\ cloned = 0
    /\ arrived = << >>
    /\ accepted = << >>
    /\ offers = << >>
    /\ responses = << >>
    /\ panicked = { }
    /\ destroyed = { }
    /\ SessionAbsent
    /\ TransportAbsent
    /\ PureAbsent

Next ==
    \/ ReceiveStep
    \/ ReceiveUnlockStep
    \/ OfferStep
    \/ UsageReturnStep
    \/ HandleUnwantedStep
    \/ ReceiveFinishStep

Spec == Init /\ [][Next]_vars

\* the same with dialog creation and usage registration
SetupNext ==
    \/ Next
    \/ RegisterLock
    \/ RegisterUnlock
    \/ RegisterNoneUnlock
    \/ AppDropDone
    \/ CreateDialogStep
    \/ CreateUnlock

\* CSeq values at the top of u32
WrapBudget ==
    [ tasks |-> { "t1" }, arrivals |-> MaxWrapArrivals,
      cseqs |-> { U32(FirstCSeq), U32_MAX_MINUS_1, U32_MAX },
      methods |-> Methods,
      peers |-> { None, Some(U32_MAX) },
      registrations |-> 1, creates |-> 1, clones |-> 0 ]

WrapInit == DialogInit /\ budget = WrapBudget /\ TransportAbsent /\ PureAbsent

WrapSpec == WrapInit /\ [][SetupNext]_vars

\* two tasks inside DialogLayer::receive
RaceBudget ==
    [ tasks |-> Tasks, arrivals |-> MaxRaceArrivals,
      cseqs |-> { U32(FirstCSeq), U32(FirstCSeq + 1) }, methods |-> { "INVITE" },
      peers |-> { None }, registrations |-> 1, creates |-> 1, clones |-> 0 ]

RaceInit == DialogInit /\ budget = RaceBudget /\ TransportAbsent /\ PureAbsent

RaceNext ==
    \/ SetupNext
    \/ ReceiveDropDoneStep
    \/ GuardDropLockStep
    \/ GuardDropUnlock

RaceSpec == RaceInit /\ [][RaceNext]_vars

\* usages registered and unregistered around one request
UsageBudget ==
    [ tasks |-> { "t1" }, arrivals |-> 1, cseqs |-> { U32(FirstCSeq) },
      methods |-> { "INVITE" }, peers |-> { None },
      registrations |-> MaxRegistrations, creates |-> 1, clones |-> 0 ]

UsageInit == DialogInit /\ budget = UsageBudget /\ TransportAbsent /\ PureAbsent

UsageSpec == UsageInit /\ [][RaceNext]_vars

\* guards that are cloned, and dialogs created again under the same key
GuardBudget ==
    [ tasks |-> { "t1" }, arrivals |-> 1, cseqs |-> { U32(FirstCSeq) },
      methods |-> { "INVITE" }, peers |-> { None },
      registrations |-> 2, creates |-> MaxCreates, clones |-> MaxClones ]

GuardInit == DialogInit /\ budget = GuardBudget /\ TransportAbsent /\ PureAbsent

GuardNext == RaceNext \/ GuardCloneStep

GuardSpec == GuardInit /\ [][GuardNext]_vars

\* the INVITE session on its own: no request reaches the dialog layer
SessionBudget ==
    [ tasks |-> { }, arrivals |-> 0, cseqs |-> { }, methods |-> { },
      peers |-> { }, registrations |-> 0, creates |-> 0, clones |-> 0,
      calls |-> MaxCalls, responses |-> 1, events |-> MaxEvents ]

UsageEventArrivesStep == \E evt \in UsageEventIn : UsageEventArrives(evt)
TerminateSendStep == \E ok \in BOOLEAN : TerminateSend(ok)
TerminateReceiveFinalStep == \E result \in { "Final", "Err" } : TerminateReceiveFinal(result)
RefreshSendInviteStep == \E ok \in BOOLEAN : RefreshSendInvite(ok)
RefreshReceiveStep == \E response \in RefreshResponseIn : RefreshReceive(response)
RespondSendStep == \E ok \in BOOLEAN : RespondSend(ok)
RespondReceiveAckStep == \E result \in { "Ack", "Err" } : RespondReceiveAck(result)
ByeProcessDefaultStep == \E ok \in BOOLEAN : ByeProcessDefault(ok)

SessionInit ==
    /\ budget = SessionBudget
    /\ overflow_checks = "unobserved"
    /\ dialogs = None
    /\ lock = Free
    /\ task = [ t \in Tasks |-> IdleTask ]
    /\ app = IdleApp
    /\ guards = { }
    /\ registered = 0
    /\ created = 0
    /\ cloned = 0
    /\ arrived = << >>
    /\ accepted = << >>
    /\ offers = << >>
    /\ responses = << >>
    /\ panicked = { }
    /\ destroyed = { }
    /\ SessionNew
    /\ TransportAbsent
    /\ PureAbsent

SessionNext ==
    \/ TimerExpires
    \/ UsageEventArrivesStep
    \/ CloseUsageEvents
    \/ DriveTimer
    \/ DriveUsageEvent
    \/ DropEvent
    \/ TerminateCall
    \/ TerminateLockState
    \/ TerminateLockTarget
    \/ TerminateSendStep
    \/ TerminateDropTarget
    \/ TerminateReceiveFinalStep
    \/ RefreshLockTarget
    \/ RefreshSendInviteStep
    \/ RefreshDropTarget
    \/ RefreshReceiveStep
    \/ RespondLockAwaitedAck
    \/ RespondUnlockAwaitedAck
    \/ RespondSendStep
    \/ AckArrives
    \/ RespondReceiveAckStep
    \/ ByeProcessDefaultStep

SessionSpec == SessionInit /\ [][SessionNext]_vars

\* one refresh: the timer fires once and process_default gets its responses
RefreshBudget ==
    [ SessionBudget EXCEPT !.calls = 1, !.responses = MaxResponses, !.events = 0 ]

RefreshInit ==
    /\ budget = RefreshBudget
    /\ overflow_checks = "unobserved"
    /\ dialogs = None
    /\ lock = Free
    /\ task = [ t \in Tasks |-> IdleTask ]
    /\ app = IdleApp
    /\ guards = { }
    /\ registered = 0
    /\ created = 0
    /\ cloned = 0
    /\ arrived = << >>
    /\ accepted = << >>
    /\ offers = << >>
    /\ responses = << >>
    /\ panicked = { }
    /\ destroyed = { }
    /\ SessionNew
    /\ LocalRefresher
    /\ TransportAbsent
    /\ PureAbsent

RefreshNext ==
    \/ TimerExpires
    \/ DriveTimer
    \/ DropEvent
    \/ RefreshLockTarget
    \/ RefreshSendInviteStep
    \/ RefreshDropTarget
    \/ RefreshReceiveStep

RefreshSpec == RefreshInit /\ [][RefreshNext]_vars

\* one stream transport on its own
SelectItemStep == \E item \in Items, kept \in BOOLEAN : SelectItem(item, kept)

(* what one poll_write of len bytes may accept, 0 for a failure: every
   prefix where the budget asks for short writes, else none or all *)
WriteOutcomes(len) == IF budget.short_writes THEN 0..len ELSE { 0, len }

PingWriteStep == \E n \in WriteOutcomes(PingLen) : PingWrite(n)
PongWriteStep == \E n \in WriteOutcomes(PongLen) : PongWrite(n)

\* the receive task and the usage references; nobody calls send
TransportBudget ==
    [ SessionBudget EXCEPT !.calls = 0, !.responses = 0, !.events = 0 ] @@
    [ items |-> MaxItems, uses |-> MaxUses, ticks |-> MaxTicks, sends |-> 0,
      short_writes |-> FALSE ]

TransportInit ==
    /\ budget = TransportBudget
    /\ DialogInit
    /\ TransportNew
    /\ PureAbsent

TransportNext ==
    \/ IdleTimerExpires
    \/ SelectNotifier
    \/ SelectRx
    \/ SelectTimeout
    \/ KeepAliveTick
    \/ PingWriteStep
    \/ SelectItemStep
    \/ PongWriteStep
    \/ EndpointUses
    \/ HandleDropped

TransportSpec == TransportInit /\ [][TransportNext]_vars

\* the writers of one connection: the receive task and the tasks in send
SendLockStep == \E s \in Senders : SendLock(s)
SendWriteAllStep == \E s \in Senders, n \in 0..MsgLen : SendWriteAll(s, n)
SendFlushStep == \E s \in Senders, ok \in BOOLEAN : SendFlush(s, ok)

WriteBudget ==
    [ TransportBudget EXCEPT !.items = 1, !.uses = 0, !.ticks = MaxTicks,
                             !.sends = MaxSends, !.short_writes = TRUE ]

WriteInit ==
    /\ budget = WriteBudget
    /\ DialogInit
    /\ TransportNew
    /\ PureAbsent
    /\ tp = Connected

WriteNext ==
    \/ KeepAliveTick
    \/ PingWriteStep
    \/ SelectItemStep
    \/ PongWriteStep
    \/ SendLockStep
    \/ SendWriteAllStep
    \/ SendFlushStep

WriteSpec == WriteInit /\ [][WriteNext]_vars

\* a pure function on its own
PureBudget ==
    [ TransportBudget EXCEPT !.items = 0, !.uses = 0, !.ticks = 0 ]

PureInit ==
    /\ budget = PureBudget
    /\ DialogInit
    /\ TransportAbsent
    /\ output = None

\* parse_complete on one datagram
ParseInit ==
    /\ PureInit
    /\ input \in { Some(d) : d \in DatagramIn }

ParseNext == ParseComplete

ParseSpec == ParseInit /\ [][ParseNext]_vars

\* encode and decode of one ICE attribute
StunInit ==
    /\ PureInit
    /\ input \in { Some(i) : i \in StunIn }

StunNext ==
    \/ StunEncode
    \/ StunDecode

StunSpec == StunInit /\ [][StunNext]_vars

(***************************************************************************)
(* Properties of the dialog layer.                                         *)
(***************************************************************************)
ReqCSeq(id) == arrived[id].cseq
ReqMethod(id) == arrived[id].method

\* in this step task t entered DialogLayer::receive with the request LastId'
Entered(t) == task[t].pc = "idle" /\ Len(arrived') = Len(arrived) + 1 /\ lock' = t
LastId == Len(arrived)

Entry == Unwrap(dialogs)
Backlog == IF IsSome(dialogs) THEN Entry.backlog ELSE { }
NextPeerCSeq == IF IsSome(dialogs) THEN Entry.next_peer_cseq ELSE None

\* the offers of requests that are not ACKs
IsNonAckOffer(o) == ReqMethod(o.id) # "ACK"
NonAckOffers == SelectSeq(offers, IsNonAckOffer)

(* C1: the CSeq values of the requests handed to a dialog's usages go up by
   exactly one from each delivered request to the next, ACK requests being
   the only ones exempt. *)
C1_DeliveredCSeqGoUpByOne ==
    \A k \in 1..(Len(NonAckOffers) - 1) :
        \/ NonAckOffers[k + 1].id = NonAckOffers[k].id
        \/ /\ ~U32SuccOverflows(ReqCSeq(NonAckOffers[k].id))
           /\ ReqCSeq(NonAckOffers[k + 1].id) = U32WrappingSucc(ReqCSeq(NonAckOffers[k].id))

\* the backlog pairs with CSeq c, c+1, ... up to the first gap, in order
RECURSIVE ContiguousRun(_, _)
ContiguousRun(backlog, c) ==
    LET hit == { e \in backlog : e.cseq = c } IN
    IF hit = { } THEN << >>
    ELSE << CHOOSE x \in hit : TRUE >>
         \o (IF U32SuccOverflows(c) THEN << >> ELSE ContiguousRun(backlog, U32WrappingSucc(c)))

\* task t entered receive with the request whose CSeq is the expected one
EnteredEqual(t) ==
    /\ Entered(t)
    /\ IsSome(NextPeerCSeq)
    /\ ReqCSeq(LastId)' = Unwrap(NextPeerCSeq)
    /\ ~U32SuccOverflows(Unwrap(NextPeerCSeq))

(* C2: a request with CSeq n = next_peer_cseq is delivered followed by the
   backlog entries n+1, n+2, ... up to the first gap, in ascending order;
   these leave the backlog and next_peer_cseq becomes the last delivered
   CSeq + 1. *)
C2_EqualDrainsContiguousBacklog ==
    [][ \A t \in Tasks :
          EnteredEqual(t) =>
            LET n   == Unwrap(NextPeerCSeq)
                run == ContiguousRun(Backlog, U32WrappingSucc(n))
                last == IF run = << >> THEN n ELSE run[Len(run)].cseq
            IN /\ task'[t].pc = "locked_deliver"
               /\ task'[t].requests = << LastId' >> \o [ i \in 1..Len(run) |-> run[i].id ]
               /\ Backlog' = Backlog \ SeqToSet(run)
               /\ ~U32SuccOverflows(last)
               /\ NextPeerCSeq' = Some(U32WrappingSucc(last))
      ]_vars

\* task t entered receive with a request whose CSeq is above the expected one
EnteredGreater(t) ==
    /\ Entered(t)
    /\ IsSome(NextPeerCSeq)
    /\ U32Less(Unwrap(NextPeerCSeq), ReqCSeq(LastId)')

(* C3: a request with CSeq above next_peer_cseq is stored in the backlog under
   its CSeq and receive returns: no usage is invoked, no response is sent and
   next_peer_cseq is unchanged. *)
C3_GreaterIsBuffered ==
    [][ \A t \in Tasks :
          /\ EnteredGreater(t) =>
               /\ task'[t].pc = "locked_return"
               /\ task'[t].requests = << >>
               /\ [ cseq |-> ReqCSeq(LastId)', id |-> LastId' ] \in Backlog'
               /\ \A e \in Backlog' : e.id = LastId' \/ (e \in Backlog /\ e.cseq # ReqCSeq(LastId)')
               /\ \A e \in Backlog : e.cseq # ReqCSeq(LastId)' => e \in Backlog'
               /\ NextPeerCSeq' = NextPeerCSeq
               /\ offers' = offers
               /\ responses' = responses
          /\ task[t].pc = "locked_return" =>
               /\ task'[t].pc \in { "locked_return", "idle" }
               /\ offers' = offers
               /\ responses' = responses
      ]_vars

\* a request above the expected CSeq sits in the backlog and its call returns
C3_Witness ==
    \E t \in Tasks :
        /\ task[t].pc = "locked_return"
        /\ \E e \in Backlog : e.id = LastId /\ U32Less(Unwrap(NextPeerCSeq), e.cseq)

\* task t entered receive with a request whose CSeq is below the expected one
EnteredLess(t) ==
    /\ Entered(t)
    /\ IsSome(NextPeerCSeq)
    /\ U32Less(ReqCSeq(LastId)', Unwrap(NextPeerCSeq))

(* C4: a request with CSeq below next_peer_cseq is delivered to the usages at
   once whatever its method, and next_peer_cseq and the backlog are left as
   they were. *)
C4_LessIsDeliveredAtOnce ==
    [][ \A t \in Tasks :
          /\ EnteredLess(t) =>
               /\ task'[t].pc = "locked_deliver"
               /\ task'[t].requests = << LastId' >>
               /\ task'[t].usages = SlotMapValues(Entry.usages)
               /\ NextPeerCSeq' = NextPeerCSeq
               /\ Backlog' = Backlog
          /\ (task[t].pc = "locked_deliver" /\ task'[t] # task[t]) =>
               /\ task'[t].pc = "deliver"
               /\ task'[t].requests = task[t].requests
          /\ (task[t].pc = "deliver" /\ task[t].requests # << >>
                /\ task[t].idx <= Len(task[t].usages) /\ task'[t] # task[t]) =>
               /\ Len(offers') = Len(offers) + 1
               /\ offers'[Len(offers')].id = Head(task[t].requests)
               /\ offers'[Len(offers')].usage = task[t].usages[task[t].idx]
      ]_vars

\* a late request that is not an ACK has been handed to a usage
C4_Witness ==
    \E i \in 1..Len(offers) :
        /\ ReqMethod(offers[i].id) # "ACK"
        /\ IsSome(NextPeerCSeq)
        /\ \E j \in 1..Len(offers) :
              /\ j < i
              /\ offers[j].id < offers[i].id
              /\ ReqCSeq(offers[j].id) = ReqCSeq(offers[i].id)
              /\ NextPeerCSeq = Some(U32WrappingSucc(ReqCSeq(offers[i].id)))


\* task t entered receive for an entry that has no next_peer_cseq yet
EnteredFirst(t) ==
    /\ Entered(t)
    /\ IsSome(dialogs)
    /\ ~IsSome(NextPeerCSeq)

(* C5: next_peer_cseq is absent in an entry made by create_dialog_from_response
   and c + 1 in one made by DialogEntry::new(Some(c)); while it is absent the
   first request, whatever its CSeq c, is not backlogged but delivered at once
   by the Equal branch, and next_peer_cseq becomes c + 1. *)
C5_FirstRequestIsDeliveredAndCounted ==
    [][ /\ \A t \in Tasks :
              EnteredFirst(t) =>
                /\ task'[t].pc = "locked_deliver"
                /\ task'[t].requests = << LastId' >>
                /\ Backlog' = { }
                /\ ~U32SuccOverflows(ReqCSeq(LastId)')
                /\ NextPeerCSeq' = Some(U32WrappingSucc(ReqCSeq(LastId)'))
        /\ created' = created + 1 =>
              /\ IsSome(dialogs')
              /\ \E peer_cseq \in budget.peers :
                    IF IsSome(peer_cseq)
                    THEN /\ ~U32SuccOverflows(Unwrap(peer_cseq))
                         /\ NextPeerCSeq' = Some(U32WrappingSucc(Unwrap(peer_cseq)))
                    ELSE NextPeerCSeq' = None
      ]_vars

\* position of a request in the order of acceptance for delivery
AcceptPos(id) == CHOOSE k \in 1..Len(accepted) : accepted[k] = id

(* C6: with several tasks inside receive for one dialog, no usage is invoked
   with a higher CSeq before it is invoked with a lower CSeq that the layer
   accepted for delivery first. *)
C6_ConcurrentReceiveKeepsOrder ==
    \A i, j \in 1..Len(offers) :
        ( /\ i < j
          /\ offers[i].usage = offers[j].usage
          /\ U32Less(ReqCSeq(offers[j].id), ReqCSeq(offers[i].id)) )
        => AcceptPos(offers[i].id) < AcceptPos(offers[j].id)

(* C7: a request is offered to the usages in the order of their registration,
   also after usages were unregistered and others registered, and no usage
   is offered a request that an earlier usage took.  (A usage is named by
   the ordinal of its registration.) *)
C7_OfferedInRegistrationOrder ==
    \A i, j \in 1..Len(offers) :
        (i < j /\ offers[i].id = offers[j].id)
        => (offers[i].usage < offers[j].usage /\ ~offers[i].took)

\* the 404 that the claim expects for a request of this method
Expected404(id, sent) ==
    [ id |-> id, code |-> 404, sent |-> sent,
      via |-> IF ReqMethod(id) = "INVITE" THEN "ServerInvTsx::respond_failure"
              ELSE "ServerTsx::respond" ]

\* task t is done offering its current request and no usage took it
Untaken(t) ==
    /\ task[t].pc = "deliver"
    /\ task[t].requests # << >>
    /\ task[t].idx > Len(task[t].usages)

(* C8: a request that no usage took is answered with 404 Not Found, by
   respond_failure of a server INVITE transaction for an INVITE and by respond
   of a server transaction for any other method but ACK; for an ACK nothing is
   sent.  Whether or not the 404 could be sent, delivery goes on with the rest
   of the batch.  Nothing is sent for a request that a usage took. *)
C8_UntakenRequestIsAnswered404 ==
    [][ /\ \A t \in Tasks :
              (Untaken(t) /\ task'[t] # task[t]) =>
                 LET id == Head(task[t].requests) IN
                 /\ IF ReqMethod(id) = "ACK"
                    THEN responses' = responses
                    ELSE \E sent \in BOOLEAN :
                            responses' = Append(responses, Expected404(id, sent))
                 /\ task'[t].pc = "deliver"
                 /\ task'[t].requests = Tail(task[t].requests)
        /\ responses' # responses => \E t \in Tasks : Untaken(t) /\ task'[t] # task[t]
        /\ \A k \in 1..Len(responses') : \A i \in 1..Len(offers') :
              offers'[i].id = responses'[k].id => ~offers'[i].took
      ]_vars

(* the 404 for a request could not be sent, and the request drained from the
   backlog behind it in the same batch is still to be delivered *)
C8_Witness ==
    \E t \in Tasks :
        /\ task[t].pc = "deliver"
        /\ task[t].requests # << >>
        /\ responses # << >>
        /\ ~responses[Len(responses)].sent
        /\ Head(task[t].requests) < responses[Len(responses)].id
        /\ AcceptPos(Head(task[t].requests)) = AcceptPos(responses[Len(responses)].id) + 1

(* C9: no usage callback and no usage destructor runs on a thread that holds
   the dialog-table lock. *)
C9_NoUserCodeUnderLock ==
    /\ \A t \in Tasks : task[t].pc \in { "in_usage", "dropping" } => lock # t
    /\ app.pc \in { "dropping", "create_dropping" } => lock # App
    /\ \A d \in destroyed : ~d.locked

\* rank of a lock in the order transport -> dialog -> session
LockRank(l) ==
    CASE l = "transports" -> 1
      [] l \in { "dialogs", "target_tp_info" } -> 2
      [] l \in { "state", "awaited_ack" } -> 3

(* C10: no operation of the session holds two of the locks (transport table,
   dialog table, target_tp_info, session state, awaited_ack) at once, and
   locks held together are taken in the order transport, dialog, session. *)
C10_NeverTwoLocks ==
    /\ Len(held) <= 1
    /\ \A i, j \in 1..Len(held) : i < j => LockRank(held[i]) < LockRank(held[j])

\* the last thing a call returned to the owner of the Session
LastOutcome == outcome[Len(outcome)]

\* this step is the owner's call of drive, up to the branch the select takes
DriveStep ==
    /\ session.pc = "idle"
    /\ calls' = calls + 1
    /\ ~(session'.pc = "terminate" /\ session'.caller = "app")

\* ... and the branch taken is the one of the session timer
DriveTimerStep ==
    /\ DriveStep
    /\ session_timer.expired
    /\ usage_events' = usage_events
    /\ ~(usage_events.queue = << >> /\ usage_events.closed)

WeRefresh == (role = "Uac" /\ refresher = "Uac") \/ (role = "Uas" /\ refresher = "Uas")
PeerRefreshes == (role = "Uac" /\ refresher = "Uas") \/ (role = "Uas" /\ refresher = "Uac")

(* C11: when the session timer fires in drive and the local side is the
   refresher for its role, drive resets the timer and returns RefreshNeeded;
   it sends no BYE (it does nothing but reset the timer) and leaves the
   session state as it is. *)
C11_TimerAsRefresherReturnsRefreshNeeded ==
    [][ (DriveTimerStep /\ WeRefresh) =>
           /\ ~session_timer'.expired
           /\ outcome' = Append(outcome, Returned("drive", "RefreshNeeded"))
           /\ session'.pc = "refresh_needed"
           /\ effects' = Append(effects, Effect("timer_reset"))
           /\ session_state' = session_state
           /\ held' = held
      ]_vars

\* drive has just returned RefreshNeeded
C11_Witness ==
    /\ WeRefresh
    /\ session.pc = "refresh_needed"
    /\ outcome # << >>
    /\ LastOutcome = Returned("drive", "RefreshNeeded")
    /\ session_state = "confirmed"

\* positions inside Session::terminate
TerminatePcs == { "terminate", "terminate_lock_target", "terminate_send",
                  "terminate_drop_target", "terminate_receive_final" }

(* C12: when the session timer fires in drive and the peer is the refresher,
   drive calls terminate: the state is marked terminated first, a BYE is
   sent, and drive returns Terminated only from receive_final, that is after
   the BYE transaction has produced its final response. *)
C12_MissedRefreshSendsByeThenTerminated ==
    [][ /\ (DriveTimerStep /\ PeerRefreshes) =>
              /\ session'.pc = "terminate"
              /\ session'.caller = "drive"
              /\ outcome' = outcome
        /\ (session.caller = "drive" /\ session.pc = "terminate" /\ session' # session) =>
              /\ session_state' = "terminated"
              /\ session'.pc \in TerminatePcs
              /\ outcome' = outcome
        /\ (session.caller = "drive" /\ outcome' # outcome
               /\ LastOutcome' = Returned("drive", "Terminated")) =>
              /\ session.pc = "terminate_receive_final"
              /\ session_state = "terminated"
              /\ Len(effects) >= 2
              /\ effects[Len(effects) - 1].op = "set_terminated"
              /\ effects[Len(effects)].op = "send_bye"
              /\ effects' = effects
      ]_vars

\* drive returned Terminated after the BYE that the missed refresh caused
C12_Witness ==
    /\ PeerRefreshes
    /\ session.pc = "idle"
    /\ outcome # << >>
    /\ LastOutcome = Returned("drive", "Terminated")
    /\ effects # << >>
    /\ effects[Len(effects)].op = "send_bye"
    /\ ~usage_events.closed

(* C13: when the BYE sent on a missed refresh fails (the send fails, or the
   BYE transaction ends in an error or time-out), drive reports Terminated,
   not an error. *)
C13_ByeFailureIsTerminated ==
    [][ (session.caller = "drive" /\ outcome' # outcome) =>
           LastOutcome' = Returned("drive", "Terminated")
      ]_vars

(* C14: drive maps a usage event to one outcome.  ReInvite: the timer is
   reset, one server INVITE transaction is created for the request and
   ReInviteReceived is returned.  Bye: one server transaction is created and
   Bye is returned, the timer untouched.  Channel closed: Terminated is
   returned and no transaction is created. *)
C14_UsageEventOutcome ==
    [][ /\ (DriveStep /\ usage_events' # usage_events) =>
              LET evt == Head(usage_events.queue) IN
              /\ usage_events.queue # << >>
              /\ usage_events' = [ usage_events EXCEPT !.queue = Tail(@) ]
              /\ session'.invite = Some(evt.cseq)
              /\ IF evt.kind = "ReInvite"
                 THEN /\ ~session_timer'.expired
                      /\ effects' = effects \o
                            << Effect("timer_reset"),
                               EffectCSeq("create_server_inv_tsx", evt.cseq) >>
                      /\ outcome' = Append(outcome, Returned("drive", "ReInviteReceived"))
                      /\ session'.pc = "reinvite_received"
                 ELSE /\ session_timer' = session_timer
                      /\ effects' = Append(effects,
                                           EffectCSeq("create_server_tsx", evt.cseq))
                      /\ outcome' = Append(outcome, Returned("drive", "Bye"))
                      /\ session'.pc = "bye_event"
        /\ (DriveStep /\ usage_events.queue = << >> /\ usage_events.closed
               /\ ~session_timer.expired) =>
              /\ outcome' = Append(outcome, Returned("drive", "Terminated"))
              /\ effects' = effects
              /\ session' = session
              /\ session_timer' = session_timer
        /\ (outcome' # outcome
               /\ LastOutcome'.result \in { "ReInviteReceived", "Bye" }) =>
              (DriveStep /\ usage_events' # usage_events)
      ]_vars

\* drive returned ReInviteReceived for an event taken when the timer had fired
C14_Witness ==
    /\ session.pc = "reinvite_received"
    /\ outcome # << >>
    /\ LastOutcome = Returned("drive", "ReInviteReceived")
    /\ ~session_timer.expired
    /\ Len(effects) >= 2
    /\ effects[Len(effects)].op = "create_server_inv_tsx"

\* the latest entry of the effects history
LastEffect == effects[Len(effects)]

(* C15: respond_success installs AwaitedAck with the CSeq of the re-INVITE in
   the shared state, and releases the lock, strictly before the 2xx is handed
   to the server INVITE transaction; from the 2xx on the AwaitedAck stays
   installed until the ACK with that CSeq arrives, and respond_success
   returns an ACK only when that ACK was delivered. *)
C15_AwaitedAckInstalledBefore2xx ==
    [][ /\ (effects' # effects /\ LastEffect'.op = "send_2xx") =>
              /\ awaited_ack = Some(LastEffect'.cseq)
              /\ session.invite = Some(LastEffect'.cseq)
              /\ held = << >>
              /\ Len(effects) >= 2
              /\ effects[Len(effects)] = EffectCSeq("await_ack", LastEffect'.cseq)
        /\ (session'.pc = "respond_receive_ack" /\ LastEffect'.op = "send_2xx") =>
              awaited_ack' = session'.invite
        /\ (outcome' # outcome /\ LastOutcome' = Returned("respond_success", "Ack")) =>
              /\ LastEffect = EffectCSeq("ack_delivered", Unwrap(session.invite))
              /\ effects[Len(effects) - 1] = EffectCSeq("send_2xx", Unwrap(session.invite))
      ]_vars

\* respond_success returned the ACK that arrived after its 2xx
C15_Witness ==
    /\ outcome # << >>
    /\ LastOutcome = Returned("respond_success", "Ack")
    /\ Len(effects) >= 3
    /\ LastEffect.op = "ack_delivered"
    /\ effects[Len(effects) - 1].op = "send_2xx"
    /\ effects[Len(effects) - 2].op = "await_ack"
    /\ awaited_ack = None

(* C16: in process_default every ACK that is sent answers the 2xx just
   received and is the ACK of that 2xx's CSeq: one ACK request per distinct
   2xx CSeq, sent again for every further 2xx of that CSeq. *)
C16_OneAckPerDistinct2xxCSeq ==
    \A i \in 1..Len(effects) :
        effects[i].op = "send_ack" =>
            /\ i > 1
            /\ effects[i - 1] = EffectCSeq("recv_2xx", effects[i].cseq)

(* C17: terminate marks the session state terminated before anything else,
   the BYE is sent only then, the state stays terminated from then on, and
   terminate returns the final response that receive_final gives for the
   BYE transaction. *)
C17_TerminateMarksThenSendsBye ==
    [][ /\ (session.pc = "terminate" /\ session' # session) =>
              /\ session_state' = "terminated"
              /\ effects' = Append(effects, Effect("set_terminated"))
        /\ (effects' # effects /\ LastEffect'.op = "send_bye") =>
              /\ session.pc = "terminate_send"
              /\ session_state = "terminated"
              /\ effects # << >>
              /\ LastEffect.op = "set_terminated"
        /\ session_state = "terminated" => session_state' = "terminated"
        /\ (outcome' # outcome /\ LastOutcome' = Returned("terminate", "Final")) =>
              /\ session.pc = "terminate_receive_final"
              /\ LastEffect.op = "send_bye"
              /\ session_state' = "terminated"
      ]_vars

\* terminate, called by the owner, returned the final response of its BYE
C17_Witness ==
    /\ outcome # << >>
    /\ LastOutcome = Returned("terminate", "Final")
    /\ session_state = "terminated"
    /\ Len(effects) >= 2
    /\ LastEffect.op = "send_bye"
    /\ effects[Len(effects) - 1].op = "set_terminated"

(* C18: when the client INVITE transaction of the refresh reports a time-out
   (transaction.receive() gives an Err), the session terminates: its state
   becomes terminated. *)
C18_RefreshTimeoutTerminates ==
    [][ (session.pc = "refresh_receive" /\ outcome' # outcome
            /\ LastOutcome'.result = "Err" /\ effects' = effects) =>
           session_state' = "terminated"
      ]_vars

\* the item the receive task read in this step, if it read one
ItemRead == IF tp_in' # tp_in THEN tp_in'[Len(tp_in')] ELSE "none"

\* the idle timer runs in Unused and only there
LifecycleShape(t) ==
    /\ t.state = "Unused" => t.idle_timer \in { "running", "expired" }
    /\ t.state = "InUse" => t.idle_timer = "off"

(* C19: the receive task of an accepted connection starts Unused with the
   idle timer running, the one of an outgoing connection starts InUse.  From
   Unused it ends only on idle-timer expiry or on peer close / read error,
   and goes to InUse when a use has sent it a notifier; the use of an unused
   transport always sends one.  From InUse it ends only on peer close / read
   error, never on the timer (none runs), and goes to Unused only when the
   notifier fired (all usages dropped), with the idle timer started anew.
   Peer close ends it in either state. *)
C19_TransportLifecycle ==
    /\ tp.incoming => (tp.state = "Unused" /\ tp.idle_timer = "running")
    /\ ~tp.incoming => tp.state = "InUse"
    /\ [][ /\ LifecycleShape(tp) /\ LifecycleShape(tp')
           /\ (tp.state = "Unused" /\ tp'.state = "Ended") =>
                 \/ tp.idle_timer = "expired" /\ ItemRead = "none"
                 \/ ItemRead \in { "closed", "error" }
           /\ (tp.state = "Unused" /\ tp'.state = "InUse") =>
                 /\ tp.rx \in { "armed", "fired" }
                 /\ tp.registry = "used"
           /\ (tp.state = "Unused" /\ tp.registry = "unused" /\ tp'.registry = "used") =>
                 tp'.rx \in { "armed", "fired" }
           /\ (tp.state = "InUse" /\ tp'.state = "Ended") =>
                 ItemRead \in { "closed", "error" }
           /\ (tp.state = "InUse" /\ tp'.state = "Unused") =>
                 /\ tp.notifier = "fired"
                 /\ tp'.idle_timer = "running"
           /\ (Running /\ ItemRead = "closed") => tp'.state = "Ended"
           /\ tp.state = "Ended" => tp'.state = "Ended"
         ]_vars

(* an outgoing connection whose usages were all dropped and that the idle
   timer then destroyed *)
C19_Witness ==
    /\ ~tp.incoming
    /\ tp.state = "Ended"
    /\ tp_in = << >>
    /\ tp_dropped = Some(0)

(* C20: when drop_transport runs (the receive task has ended), no usage
   reference to the transport exists. *)
C20_NotDestroyedWhileReferenced ==
    tp_dropped \in { None, Some(0) }

(***************************************************************************)
(* Properties of the writes to a stream connection.                        *)
(***************************************************************************)
LastWrite == tp_out'[Len(tp_out')]
OneMoreWrite == Len(tp_out') = Len(tp_out) + 1

\* this step wrote the keep-alive response: one write call with b"\r\n"
PongWritten ==
    /\ OneMoreWrite
    /\ LastWrite.src = "pong"
    /\ LastWrite.len = 2
    /\ LastWrite.done
    /\ wire' = wire \o Bytes(Len(tp_out'), 1, LastWrite.written)
    /\ \A w \in 1..Len(tp_out) : tp_out'[w] = tp_out[w]

(* C21: a double-CRLF keep-alive request read from the stream makes the
   receive task issue exactly one write of a single CRLF on the connection,
   a single-CRLF keep-alive response makes it write nothing; neither item
   reaches Endpoint::receive, and the task is still running after either. *)
C21_KeepAliveAnswered ==
    [][ /\ ItemRead = "ka_request" =>
              /\ tp_task' = "pong"
              /\ tp_out' = tp_out /\ wire' = wire
              /\ tp_msgs' = tp_msgs
              /\ tp'.state = tp.state
        /\ ItemRead = "ka_response" =>
              /\ tp_task' = "select"
              /\ tp_out' = tp_out /\ wire' = wire
              /\ tp_msgs' = tp_msgs
              /\ tp'.state = tp.state
        /\ tp_task = "pong" =>
              /\ tp_in' = tp_in /\ tp_msgs' = tp_msgs
              /\ tp'.state = tp.state /\ Running
              /\ \/ tp_task' = "pong" /\ tp_out' = tp_out /\ wire' = wire
                 \/ tp_task' = "select" /\ PongWritten
        /\ (tp_out' # tp_out /\ LastWrite.src = "pong") => tp_task = "pong"
        /\ \A i \in 1..Len(tp_msgs') : tp_in'[tp_msgs'[i]] = "message"
      ]_vars

(* a keep-alive request was answered with both bytes of the CRLF, a
   keep-alive response was read after it, and the task is at its select! *)
C21_Witness ==
    /\ tp_in = << "ka_request", "ka_response" >>
    /\ \E w \in 1..Len(tp_out) : tp_out[w].src = "pong" /\ tp_out[w].written = 2
    /\ Cardinality({ w \in 1..Len(tp_out) : tp_out[w].src = "pong" }) = 1
    /\ tp_msgs = << >>
    /\ AtSelect

\* the bytes on the connection are those of the writes, one write after another
Serialized ==
    \A i \in 1..(Len(wire) - 1) :
        \/ wire[i].w < wire[i + 1].w
        \/ wire[i].w = wire[i + 1].w /\ wire[i + 1].k = wire[i].k + 1

\* a write that met no I/O error has all its bytes on the connection and was flushed
WrittenAndFlushed(w) == (w.done /\ ~w.err) => (w.written = w.len /\ w.flushed)

(* C22: the writes to one stream connection (send, keep-alive request,
   keep-alive response) hold the write mutex one at a time, their bytes are
   on the connection write after write in the order in which they got the
   mutex, and every write that met no I/O error is complete and flushed. *)
C22_WritesSerializedCompleteFlushed ==
    /\ write_half \in { "free" } \cup Sending
    /\ Cardinality(Sending) <= 1
    /\ Serialized
    /\ \A w \in 1..Len(tp_out) : WrittenAndFlushed(tp_out[w])

(***************************************************************************)
(* Properties of the end of the receive task.                              *)
(***************************************************************************)
TaskEnds == tp.state # "Ended" /\ tp'.state = "Ended"

(* C23: an error item from the decoder ends the receive task, which reads
   nothing more.  Whenever the task ends, drop_transport runs in that step
   and at no other time, so the registry entry is removed exactly once, and
   nothing is read or passed to Endpoint::receive after the end. *)
C23_ErrorIsFatalAndEntryRemovedOnce ==
    [][ /\ ItemRead = "error" => (TaskEnds /\ tp_msgs' = tp_msgs)
        /\ TaskEnds =>
              /\ tp.registry # "dropped" /\ tp'.registry = "dropped"
              /\ tp_dropped = None /\ tp_dropped' # None
        /\ ~TaskEnds => (tp'.registry = tp.registry \/ Running) /\ tp_dropped' = tp_dropped
        /\ tp'.registry = "dropped" <=> tp'.state = "Ended"
        /\ tp.state = "Ended" =>
              /\ tp'.state = "Ended"
              /\ tp_in' = tp_in
              /\ tp_msgs' = tp_msgs
      ]_vars

\* a message was passed to the endpoint, then a decoder error ended the task
C23_Witness ==
    /\ tp_in = << "message", "error" >>
    /\ tp_msgs = << 1 >>
    /\ tp.state = "Ended"
    /\ tp.registry = "dropped"
    /\ tp_dropped # None

(***************************************************************************)
(* Properties of parse_complete.                                           *)
(***************************************************************************)
\* at least n bytes follow the head
Follow(d, n) == ~n.top /\ n.v <= d.tail

(* C24: for a datagram whose head parsed, Content-Length 0 gives an empty
   body; Content-Length n > 0 gives the n bytes after the head, or
   FailedToParse when fewer than n bytes follow; no Content-Length gives all
   the bytes after the head. *)
C24_BodyOfCompleteDatagram ==
    (IsSome(input) /\ IsSome(output)) =>
        LET d == Unwrap(input)
            r == Unwrap(output)
            after == Slice(d.head_end, BufferLen(d))
        IN IF d.content_length = None
           THEN r = Sip(after)
           ELSE LET n == Unwrap(d.content_length)
                IN IF n = Small(0) THEN r = Sip(<< >>)
                   ELSE IF Follow(d, n) THEN r = Sip(SubSeq(after, 1, n.v))
                   ELSE r = FailedToParse

(***************************************************************************)
(* Properties of the ICE attributes.                                       *)
(***************************************************************************)
(* C25: for Priority, UseCandidate, IceControlled and IceControlling,
   encode writes encode_len bytes (4, 0, 8, 8) and decode of these bytes
   gives the value back; decode rejects a Priority value that is not 4 bytes
   long and an IceControlled or IceControlling value that is not 8 bytes
   long. *)
C25_IceAttributesRoundTrip ==
    (IsSome(input) /\ IsSome(output)) =>
        LET in == Unwrap(input)
            out == Unwrap(output)
            want == CASE in.attr = "Priority" -> 4
                      [] in.attr = "UseCandidate" -> 0
                      [] OTHER -> 8
        IN IF in.kind = "value"
           THEN /\ Len(out.bytes) = want
                /\ encode_len(in.attr) = want
                /\ IsSome(out.decoded) => Unwrap(out.decoded) = Ok(in.x)
           ELSE (in.attr # "UseCandidate" /\ Len(in.x) # want) =>
                    ~Unwrap(out.decoded).ok

\* an IceControlling value with four different limbs came back from decode
C25_Witness ==
    /\ IsSome(input) /\ IsSome(output)
    /\ Unwrap(input).attr = "IceControlling"
    /\ Unwrap(input).kind = "value"
    /\ Unwrap(input).x = << 1, 255, 256, 65535 >>
    /\ Unwrap(output).decoded = Some(Ok(<< 1, 255, 256, 65535 >>))

(***************************************************************************)
(* Further properties of the dialog layer.                                 *)
(***************************************************************************)
(* C26: a request whose CSeq is 2^32 - 1 is never accepted for delivery to
   the usages, and neither DialogLayer::receive nor DialogEntry::new adds 1
   to 2^32 - 1: no thread panics on the overflow, DialogEntry::new always
   yields an entry, and next_peer_cseq is never the wrapped value 0. *)
C26_MaxCSeqIsRejected ==
    /\ \A k \in 1..Len(accepted) : ReqCSeq(accepted[k]) # U32_MAX
    /\ panicked = { }
    /\ created > 0 => IsSome(dialogs)
    /\ NextPeerCSeq # Some(U32(0))

(* C27: while the dialog's entry stays the same one, a step of
   DialogLayer::receive never lowers a next_peer_cseq that is set, and
   changes it only when the request that entered has the CSeq equal to it
   and is accepted for delivery. *)
C27_PeerCSeqOnlyAdvances ==
    [][ (IsSome(dialogs) /\ IsSome(NextPeerCSeq) /\ created' = created) =>
          /\ IsSome(NextPeerCSeq')
          /\ ~U32Less(Unwrap(NextPeerCSeq'), Unwrap(NextPeerCSeq))
          /\ NextPeerCSeq' # NextPeerCSeq =>
                \E t \in Tasks :
                    /\ Entered(t)
                    /\ ReqCSeq(LastId)' = Unwrap(NextPeerCSeq)
                    /\ LastId' \in SeqToSet(accepted')
      ]_vars

\* the usages registered in the dialog's entry
Registered == IF IsSome(dialogs) THEN SeqToSet(SlotMapValues(Entry.usages)) ELSE { }

\* in this step UsageGuard::drop began for a copy of the guard g
DropBegins(g) == GuardsCount(guards', g) = GuardsCount(guards, g) - 1

(* C28: UsageGuard::drop takes no usage but the guard's own out of the
   entry and leaves the backlog and next_peer_cseq alone, and does nothing
   when there is no entry; a usage destructor that the drop runs, runs after
   the dialog-table lock was released; register_usage for a key without an
   entry inserts nothing and makes no guard. *)
C28_GuardDropRemovesOwnUsage ==
    [][ /\ \A g \in GuardValues :
              DropBegins(g) =>
                /\ Registered \ Registered' \subseteq { g.usage }
                /\ g.usage \notin Registered'
                /\ Registered' \subseteq Registered
                /\ Backlog' = Backlog
                /\ NextPeerCSeq' = NextPeerCSeq
                /\ ~IsSome(dialogs) => dialogs' = dialogs
        /\ (app.pc = "drop_locked" /\ app' # app) =>
              /\ lock' = Free
              /\ \A d \in destroyed' \ destroyed : ~d.locked
        /\ (registered' = registered + 1 /\ ~IsSome(dialogs)) =>
              /\ dialogs' = dialogs
              /\ app'.pc = "register_none"
        /\ app.pc = "register_none" => (guards' = guards /\ dialogs' = dialogs)
      ]_vars

\* the guards that exist: every copy made by register_usage or clone and not
\* yet dropped
LiveGuards == { g \in GuardValues : GuardsCount(guards, g) > 0 }

(* C29: as long as a UsageGuard exists, the usage it was made for is in the
   usages of the dialog's entry; neither the drop of another copy of the
   guard nor create_dialog_from_response for the same key takes it out. *)
C29_LiveGuardMeansRegistered ==
    \A g \in LiveGuards : g.usage \in Registered

(* C30: in a DialogEntry whose next_peer_cseq is set, every key of the
   backlog is above next_peer_cseq: what is buffered is still ahead of the
   request the dialog waits for. *)
C30_BacklogAboveNextPeerCSeq ==
    IsSome(NextPeerCSeq) =>
        \A e \in Backlog : Cmp(e.cseq, Unwrap(NextPeerCSeq)) = "Greater"

\* a re-INVITE is the next usage event in the channel
ReInviteQueued ==
    /\ usage_events.queue # << >>
    /\ Head(usage_events.queue).kind = "ReInvite"

(* C31: when drive is called with the session timer expired, the peer being
   the refresher, and a ReInvite usage event already waiting in the channel,
   drive takes the event: it resets the timer and returns ReInviteReceived,
   and does not go into terminate to send a BYE. *)
C31_QueuedReInviteBeatsExpiredTimer ==
    [][ (DriveStep /\ PeerRefreshes /\ session_timer.expired /\ ReInviteQueued) =>
           /\ usage_events'.queue = Tail(usage_events.queue)
           /\ ~session_timer'.expired
           /\ outcome' = Append(outcome, Returned("drive", "ReInviteReceived"))
           /\ session'.pc = "reinvite_received"
           /\ session_state' = session_state
      ]_vars

\* UsageGuard::drop is running for the usage u
DropInProgress(u) == app.pc \in { "drop_locked", "dropping" } /\ app.usage = Some(u)

(* UsageGuard::drop has returned for the usage u: u was handed to
   register_usage, no guard for it is left, it is out of the entry and no
   drop for it is under way *)
DropReturned(u) ==
    /\ u \in 1..registered
    /\ u \notin Registered
    /\ \A g \in LiveGuards : g.usage # u
    /\ ~DropInProgress(u)

\* this step calls Usage::receive
ReceiveInvoked == Len(offers') = Len(offers) + 1

(* C32: Usage::receive is not called on a usage whose UsageGuard::drop has
   returned, also not by a DialogLayer::receive that cloned the usages before
   the guard was dropped and is still delivering. *)
C32_NoReceiveAfterGuardDrop ==
    [][ ReceiveInvoked => ~DropReturned(offers'[Len(offers')].usage) ]_vars

====
